---------------------------- MODULE Spec2Model ----------------------------
(***************************************************************************)
(* Model of the registry table application (src/app): the filter engine   *)
(* of filters_core.py and, from main.py, the MainWindow registry with its *)
(* deadline and duplicate highlight sets and its row operations.          *)
(*                                                                         *)
(* Text is a sequence of one-character strings.  A cell value is a tagged *)
(* record: Str(text), Num(n), Bool(b), Date(<<y, m, d>>) or NaN.  A date  *)
(* is a triple <<year, month, day>>; NaT is the missing date.             *)
(* A DataFrame is a sequence of rows [idx, cells, is_archived,            *)
(* is_deleted]: idx is the index label (the record id), cells maps each   *)
(* column of the schema to its value.                                     *)
(***************************************************************************)
EXTENDS Integers, Sequences, FiniteSets, TLC

VARIABLES
    columns,               \* df.columns: the schema (set of column names)
    df_original,           \* MainWindow.df_original
    df_current,            \* MainWindow.df_current (the view shown)
    conditions,            \* MainWindow.conditions
    global_search_text,    \* MainWindow.global_search_text
    view_mode,             \* MainWindow.view_mode
    expired_indices,       \* highlight set "expired"
    expiring_by5_indices,  \* highlight set "expiring_soon"
    ors_warning_indices,   \* highlight set "case_warning"
    ors_overdue_indices,   \* highlight set "case_overdue"
    ors_warning_rows,      \* copy of case_warning used by the view modes
    ors_overdue_rows,      \* copy of case_overdue used by the view modes
    duplicate_indices,     \* highlight set "duplicate"
    clock,                 \* the system date (position in Calendar)
    today,                 \* the date the last deadline recompute read
    result                 \* the value returned by the last apply_filters call;
                           \* under SpecNorm the argument of the name normaliser
                           \* followed by the values its successive calls
                           \* return; under SpecMatch the fields of the
                           \* MatchAnalysisDialog

vars == <<columns, df_original, df_current, conditions, global_search_text,
          view_mode, expired_indices, expiring_by5_indices,
          ors_warning_indices, ors_overdue_indices, ors_warning_rows,
          ors_overdue_rows, duplicate_indices, clock, today, result>>

None == "None"
NaT == <<0, 0, 0>>

\* the absent bound of a RANGE operand
NoBound == <<>>
NaN == [t |-> "nan"]

Str(s) == [t |-> "str", v |-> s]
Num(n) == [t |-> "num", v |-> n]
Bool(b) == [t |-> "bool", v |-> b]
Date(d) == [t |-> "date", v |-> d]

----------------------------------------------------------------------------
(* Characters and text                                                     *)

DigitChars == <<"0", "1", "2", "3", "4", "5", "6", "7", "8", "9">>

Digits == {"0", "1", "2", "3", "4", "5", "6", "7", "8", "9"}

IsDigit(c) == c \in Digits

DigitValue ==
    ("0" :> 0) @@ ("1" :> 1) @@ ("2" :> 2) @@ ("3" :> 3) @@ ("4" :> 4) @@
    ("5" :> 5) @@ ("6" :> 6) @@ ("7" :> 7) @@ ("8" :> 8) @@ ("9" :> 9)

DigitVal(c) == DigitValue[c]

IsSpace(c) == c = " "

\* str.strip(): leading and trailing whitespace removed
RECURSIVE LStrip(_)
LStrip(s) ==
    IF s # <<>> /\ IsSpace(Head(s)) THEN LStrip(Tail(s)) ELSE s

RECURSIVE RStrip(_)
RStrip(s) ==
    IF s # <<>> /\ IsSpace(s[Len(s)])
    THEN RStrip(SubSeq(s, 1, Len(s) - 1))
    ELSE s

Strip(s) == RStrip(LStrip(s))

\* two decimal digits / four decimal digits of a number, as text
TwoDigits(n) == <<DigitChars[((n \div 10) % 10) + 1], DigitChars[(n % 10) + 1]>>

FourDigits(n) == TwoDigits(n \div 100) \o TwoDigits(n % 100)

\* the text dd.mm.yyyy
DateText(d, m, y) == TwoDigits(d) \o <<".">> \o TwoDigits(m) \o <<".">> \o FourDigits(y)

----------------------------------------------------------------------------
(* Calendar dates (pandas Timestamp, normalised to midnight)               *)

IsLeap(y) == (y % 4 = 0 /\ y % 100 # 0) \/ y % 400 = 0

DaysInMonth(y, m) ==
    IF m = 2 THEN (IF IsLeap(y) THEN 29 ELSE 28)
    ELSE IF m \in {4, 6, 9, 11} THEN 30 ELSE 31

\* number of days from 0000-03-01 to the date (proleptic Gregorian)
Ordinal(dt) ==
    LET y == IF dt[2] <= 2 THEN dt[1] - 1 ELSE dt[1]
        mp == IF dt[2] > 2 THEN dt[2] - 3 ELSE dt[2] + 9
        doy == ((153 * mp + 2) \div 5) + dt[3] - 1
    IN  365 * y + (y \div 4) - (y \div 100) + (y \div 400) + doy

\* (a - b).days
DaysBetween(a, b) == Ordinal(a) - Ordinal(b)

\* dt + pd.DateOffset(months = n): the day is clipped to the month's end
AddMonths(dt, n) ==
    LET k == (dt[2] - 1) + n
        y == dt[1] + (k \div 12)
        m == (k % 12) + 1
        d == IF dt[3] > DaysInMonth(y, m) THEN DaysInMonth(y, m) ELSE dt[3]
    IN  <<y, m, d>>

----------------------------------------------------------------------------
(* Date extraction from free text                                          *)

\* the regular expression \d{2}\.\d{2}\.\d{4} matches at position p
DatePatternAt(s, p) ==
    /\ p + 9 <= Len(s)
    /\ s[p + 2] = "." /\ s[p + 5] = "."
    /\ IsDigit(s[p]) /\ IsDigit(s[p + 1])
    /\ IsDigit(s[p + 3]) /\ IsDigit(s[p + 4])
    /\ IsDigit(s[p + 6]) /\ IsDigit(s[p + 7])
    /\ IsDigit(s[p + 8]) /\ IsDigit(s[p + 9])

\* the leftmost position from p on where the pattern matches, 0 when none
RECURSIVE first_match(_, _)
first_match(s, p) ==
    IF p + 9 > Len(s) THEN 0
    ELSE IF DatePatternAt(s, p) THEN p
    ELSE first_match(s, p + 1)

\* Series.str.extract(r"(\d{2}\.\d{2}\.\d{4})")[0]: the first match, or NaN
str_extract(s) ==
    LET p == first_match(s, 1)
    IN  IF p = 0 THEN NaN ELSE SubSeq(s, p, p + 9)

\* pd.to_datetime(x, format="%d.%m.%Y", errors="coerce") of an extracted text
to_datetime(x) ==
    IF x = NaN THEN NaT
    ELSE LET d == 10 * DigitVal(x[1]) + DigitVal(x[2])
             m == 10 * DigitVal(x[4]) + DigitVal(x[5])
             y == 1000 * DigitVal(x[7]) + 100 * DigitVal(x[8])
                    + 10 * DigitVal(x[9]) + DigitVal(x[10])
         IN  IF m \in 1..12 /\ d >= 1 /\ d <= DaysInMonth(y, m)
             THEN <<y, m, d>>
             ELSE NaT


----------------------------------------------------------------------------
(* Cell values as text                                                     *)

\* str(value), the element-wise rendering done by Series.astype(str)
astype_str(val) ==
    CASE val.t = "str" -> val.v
      [] val.t = "nan" -> <<"n", "a", "n">>
      [] val.t = "bool" -> IF val.v THEN <<"T", "r", "u", "e">>
                                    ELSE <<"F", "a", "l", "s", "e">>
      [] val.t = "num" -> IF val.v < 10 THEN <<DigitChars[val.v + 1]>>
                                        ELSE TwoDigits(val.v)
      [] val.t = "date" -> FourDigits(val.v[1]) \o <<"-">> \o TwoDigits(val.v[2])
                             \o <<"-">> \o TwoDigits(val.v[3])

\* str.lower() of one character
LowerChar(c) ==
    CASE c = "A" -> "a"
      [] c = "B" -> "b"
      [] c = "T" -> "t"
      [] c = "F" -> "f"
      [] c = "E" -> "e"
      [] c = "K" -> "k"
      [] c = "N" -> "n"
      [] c = "O" -> "o"
      [] c = "P" -> "p"
      [] c = "R" -> "r"
      [] OTHER -> c

\* one pattern character against one text character, re.IGNORECASE:
\* "." matches any character, every other character of the model's
\* alphabet matches itself
CharMatches(pc, c) == pc = "." \/ LowerChar(pc) = LowerChar(c)

\* Series.str.contains(pat, case=False, na=False) for one rendered value
str_contains(s, pat) ==
    \E p \in 1..(Len(s) - Len(pat) + 1) :
        \A k \in 1..Len(pat) : CharMatches(pat[k], s[p + k - 1])

----------------------------------------------------------------------------
(* DataFrame helpers                                                       *)

\* df.index, as a set
IndexOf(df) == {df[p].idx : p \in 1..Len(df)}

\* the positions of df whose index label is i
RowsAt(df, i) == {p \in 1..Len(df) : df[p].idx = i}

\* columns whose dtype is datetime64 (converted at load time)
DatetimeCols == {"when"}

is_datetime64_any_dtype(col) == col \in DatetimeCols

----------------------------------------------------------------------------
(* filters_core.py                                                         *)

\* Operator (Enum)
Operators == {"CONTAINS", "EQUALS", "NOT_EQUALS", "RANGE"}

FilterCondition(column, operator, value) ==
    [column |-> column, operator |-> operator, value |-> value]

\* the date the RANGE branch compares for one cell
range_date(col, val) ==
    IF is_datetime64_any_dtype(col)
    THEN (IF val.t = "date" THEN val.v ELSE NaT)
    ELSE to_datetime(str_extract(astype_str(val)))

\* ~(date_series < start): a missing date passes the lower bound
date_not_before(d, start) == ~(d # NaT /\ Ordinal(d) < Ordinal(start))

\* date_series > start: the lower bound left out
date_gt(d, start) == d # NaT /\ Ordinal(d) > Ordinal(start)

\* date_series >= start, element-wise: a comparison with NaT is False
date_ge(d, start) == d # NaT /\ Ordinal(d) >= Ordinal(start)

date_le(d, end) == d # NaT /\ Ordinal(d) <= Ordinal(end)

\* series == val, element-wise: NaN equals nothing, values of different
\* types are unequal (True and False compare as 1 and 0 with numbers)
series_eq(cell, val) ==
    CASE cell.t = "nan" \/ val.t = "nan" -> FALSE
      [] cell.t = val.t -> cell.v = val.v
      [] cell.t = "bool" /\ val.t = "num" -> val.v = (IF cell.v THEN 1 ELSE 0)
      [] cell.t = "num" /\ val.t = "bool" -> cell.v = (IF val.v THEN 1 ELSE 0)
      [] OTHER -> FALSE

\* the mask with NOT_EQUALS comparing texts without regard to case
condition_mask_ne_ignoring_case(row, cond) ==
    LET cell == row.cells[cond.column]
    IN  CASE cond.operator = "EQUALS" -> series_eq(cell, cond.value)
          [] cond.operator = "NOT_EQUALS" ->
                 IF cell.t = "str" /\ cond.value.t = "str"
                 THEN [k \in 1..Len(cell.v) |-> LowerChar(cell.v[k])]
                          # [k \in 1..Len(cond.value.v) |-> LowerChar(cond.value.v[k])]
                 ELSE ~series_eq(cell, cond.value)
          [] OTHER -> TRUE

\* the mask of _apply_single_condition for one row (column present)
condition_mask(row, cond) ==
    LET cell == row.cells[cond.column]
    IN  CASE cond.operator = "RANGE" ->
                 LET d == range_date(cond.column, cell)
                 IN  /\ (cond.value[1] # NoBound => date_ge(d, cond.value[1]))
                     /\ (cond.value[2] # NoBound => date_le(d, cond.value[2]))
          [] cond.operator = "CONTAINS" ->
                 str_contains(astype_str(cell), astype_str(cond.value))
          [] cond.operator = "EQUALS" -> series_eq(cell, cond.value)
          [] cond.operator = "NOT_EQUALS" -> ~series_eq(cell, cond.value)
          [] OTHER -> TRUE

\* the selection followed by reset_index(drop=True): the rows are renumbered
select_reset_index(df, cond) ==
    IF cond.column \notin columns
    THEN df
    ELSE LET kept == SelectSeq(df, LAMBDA row : condition_mask(row, cond))
         IN  [p \in 1..Len(kept) |-> [kept[p] EXCEPT !.idx = p - 1]]

\* a condition on a column the frame does not have selecting no row
apply_condition_absent_selects_none(df, cond) ==
    SelectSeq(df, LAMBDA row : cond.column \in columns /\ condition_mask(row, cond))

_apply_single_condition(df, cond) ==
    IF cond.column \notin columns
    THEN df
    ELSE SelectSeq(df, LAMBDA row : condition_mask(row, cond))

\* the loop with the emptiness test ahead of the assignment: an empty
\* selection ends the loop with the previous result
RECURSIVE apply_from_break_first(_, _, _)
apply_from_break_first(res, conds, i) ==
    IF i > Len(conds) THEN res
    ELSE LET next == _apply_single_condition(res, conds[i])
         IN  IF next = <<>> THEN res
             ELSE apply_from_break_first(next, conds, i + 1)

\* the loop of apply_filters from condition number i on
RECURSIVE apply_from(_, _, _)
apply_from(res, conds, i) ==
    IF i > Len(conds) THEN res
    ELSE LET next == _apply_single_condition(res, conds[i])
         IN  IF next = <<>> THEN next      \* result.empty: break
             ELSE apply_from(next, conds, i + 1)

apply_filters(df, conds) == apply_from(df, conds, 1)

----------------------------------------------------------------------------
(* main.py: MainWindow.recalc_expiring_and_expired                         *)

cutoff_5 == <<2025, 9, 1>>

\* the key columns, looked up in the schema by their caption
col5_name == IF "measure" \in columns THEN "measure" ELSE None

col7_name == IF "order" \in columns THEN "order" ELSE None

col8_name == IF "ors" \in columns THEN "ors" ELSE None

\* the first date of a text cell, parsed (NaT when none or not a date)
first_date(val) == to_datetime(str_extract(astype_str(val)))

\* expiry_dates: first date of the measure column + 6 months
expiry_date(row) ==
    LET d == first_date(row.cells[col5_name])
    IN  IF d = NaT THEN NaT ELSE AddMonths(d, 6)

\* rule 1 with the window of the yellow mark closed a day early
rule5_bucket_short_window(row, tdy) ==
    LET d_exp == expiry_date(row)
    IN  IF d_exp = NaT THEN None
        ELSE IF Ordinal(d_exp) < Ordinal(cutoff_5) THEN None
        ELSE LET days_left == DaysBetween(d_exp, tdy)
             IN  IF days_left < 0 THEN "expired"
                 ELSE IF 0 <= days_left /\ days_left < 10 THEN "expiring"
                 ELSE None

\* rule 1 with the cutoff day itself ignored
rule5_bucket_cutoff_inclusive(row, tdy) ==
    LET d_exp == expiry_date(row)
    IN  IF d_exp = NaT THEN None
        ELSE IF Ordinal(d_exp) <= Ordinal(cutoff_5) THEN None
        ELSE LET days_left == DaysBetween(d_exp, tdy)
             IN  IF days_left < 0 THEN "expired"
                 ELSE IF 0 <= days_left /\ days_left <= 10 THEN "expiring"
                 ELSE None

\* rule 1, the row's bucket: "expired", "expiring" or None
rule5_bucket(row, tdy) ==
    LET d_exp == expiry_date(row)
    IN  IF d_exp = NaT THEN None
        ELSE IF Ordinal(d_exp) < Ordinal(cutoff_5) THEN None
        ELSE LET days_left == DaysBetween(d_exp, tdy)
             IN  IF days_left < 0 THEN "expired"
                 ELSE IF 0 <= days_left /\ days_left <= 10 THEN "expiring"
                 ELSE None

\* rule 2 with day 20 already overdue
rule78_bucket_day20_overdue(row, tdy) ==
    LET base_date == first_date(row.cells[col7_name])
        ors_date == first_date(row.cells[col8_name])
    IN  IF base_date = NaT THEN None
        ELSE IF ors_date # NaT THEN None
        ELSE LET days_passed == DaysBetween(tdy, base_date)
             IN  IF 0 <= days_passed /\ days_passed < 20 THEN "warning"
                 ELSE IF days_passed >= 20 THEN "overdue"
                 ELSE None

\* rule 2, the row's bucket: "warning", "overdue" or None
rule78_bucket(row, tdy) ==
    LET base_date == first_date(row.cells[col7_name])
        ors_date == first_date(row.cells[col8_name])
    IN  IF base_date = NaT THEN None
        ELSE IF ors_date # NaT THEN None
        ELSE LET days_passed == DaysBetween(tdy, base_date)
             IN  IF 0 <= days_passed /\ days_passed <= 20 THEN "warning"
                 ELSE IF days_passed > 20 THEN "overdue"
                 ELSE None

\* the indices of df whose bucket, in the per-row list buckets, is b
bucket_set(df, buckets, b) ==
    {df[p].idx : p \in {q \in 1..Len(df) : buckets[q] = b}}

\* the four sets the recompute stores, for registry df on the day tdy
recalc_expiring_and_expired(df, tdy) ==
    LET b5 == [p \in 1..Len(df) |->
                  IF col5_name = None THEN None ELSE rule5_bucket(df[p], tdy)]
        b78 == [p \in 1..Len(df) |->
                  IF col7_name = None \/ col8_name = None THEN None
                  ELSE rule78_bucket(df[p], tdy)]
    IN  [expired |-> bucket_set(df, b5, "expired"),
         expiring |-> bucket_set(df, b5, "expiring"),
         warning |-> bucket_set(df, b78, "warning"),
         overdue |-> bucket_set(df, b78, "overdue")]

----------------------------------------------------------------------------
(* main.py: MainWindow.recalc_duplicate_marks                              *)

\* str.split(",", n=1).str[0]: the text before the first comma
RECURSIVE before_comma(_)
before_comma(s) ==
    IF s = <<>> \/ Head(s) = "," THEN <<>>
    ELSE <<Head(s)>> \o before_comma(Tail(s))

\* name_series: the identity key of a row
name_key(row) == Strip(before_comma(astype_str(row.cells["pib"])))

\* the marks without the test name_series != "": empty names count as names
recalc_marks_with_empty_names(df0) ==
    LET df == SelectSeq(df0, LAMBDA row : row.is_deleted = FALSE)
        name_series == [p \in 1..Len(df) |-> name_key(df[p])]
        dup_names == {name_series[p] : p \in
                         {q \in 1..Len(df) :
                             Cardinality({r \in 1..Len(df) :
                                 name_series[r] = name_series[q]}) > 1}}
    IN  IF df = <<>> \/ "pib" \notin columns THEN {}
        ELSE {df[p].idx : p \in {q \in 1..Len(df) : name_series[q] \in dup_names}}

\* the marks with the names counted over all rows, deleted ones included,
\* and the deleted rows left out of the marked set only
recalc_marks_count_deleted(df0) ==
    LET name_series == [p \in 1..Len(df0) |-> name_key(df0[p])]
        valid == {p \in 1..Len(df0) : name_series[p] # <<>>}
        dup_names == {name_series[p] : p \in
                         {q \in valid :
                             Cardinality({r \in valid :
                                 name_series[r] = name_series[q]}) > 1}}
    IN  IF df0 = <<>> \/ "pib" \notin columns THEN {}
        ELSE {df0[p].idx : p \in {q \in 1..Len(df0) :
                  df0[q].is_deleted = FALSE /\ name_series[q] \in dup_names}}

recalc_duplicate_marks(df0) ==
    LET df == SelectSeq(df0, LAMBDA row : row.is_deleted = FALSE)
        name_series == [p \in 1..Len(df) |-> name_key(df[p])]
        valid == {p \in 1..Len(df) : name_series[p] # <<>>}
        dup_names == {name_series[p] : p \in
                         {q \in valid :
                             Cardinality({r \in valid :
                                 name_series[r] = name_series[q]}) > 1}}
    IN  IF df = <<>> \/ "pib" \notin columns THEN {}
        ELSE {df[p].idx : p \in {q \in 1..Len(df) : name_series[q] \in dup_names}}

----------------------------------------------------------------------------
(* main.py: MainWindow.apply_all_filters                                   *)

ViewModes == {"main", "archive", "deleted", "expired", "ors_warning", "ors_overdue"}

\* step 3, global search: some column of the row, rendered, contains text
search_mask(row, text) ==
    \/ \E c \in columns : str_contains(astype_str(row.cells[c]), text)
    \/ str_contains(astype_str(Bool(row.is_archived)), text)
    \/ str_contains(astype_str(Bool(row.is_deleted)), text)

\* step 4, the view mode
mode_mask(row, mode, expired, warning_rows, overdue_rows) ==
    CASE mode = "main" -> row.is_deleted = FALSE
      [] mode = "archive" -> row.is_deleted = FALSE /\ row.is_archived = TRUE
      [] mode = "deleted" -> row.is_deleted = TRUE
      [] mode = "expired" -> row.is_deleted = FALSE /\ row.idx \in expired
      [] mode = "ors_warning" -> row.is_deleted = FALSE /\ row.idx \in warning_rows
      [] mode = "ors_overdue" -> row.is_deleted = FALSE /\ row.idx \in overdue_rows

\* the value apply_all_filters assigns to df_current.  The schema of the
\* model has no prosecutor column, so step 2 filters nothing.
apply_all_filters(df0, conds, text, mode, expired, warning_rows, overdue_rows) ==
    LET df1 == IF conds # <<>> THEN apply_filters(df0, conds) ELSE df0
        df3 == IF text # <<>>
               THEN SelectSeq(df1, LAMBDA row : search_mask(row, text))
               ELSE df1
    IN  SelectSeq(df3, LAMBDA row :
            mode_mask(row, mode, expired, warning_rows, overdue_rows))

\* apply_all_filters run at the end of a handler, on the handler's new state
RefreshView ==
    df_current' = apply_all_filters(df_original', conditions', global_search_text',
                      view_mode', expired_indices', ors_warning_rows',
                      ors_overdue_rows')

\* the deadline recompute run inside a handler: reads the clock
RecalcDeadlines ==
    /\ today' = clock
    /\ LET r == recalc_expiring_and_expired(df_original', clock)
       IN  /\ expired_indices' = r.expired
           /\ expiring_by5_indices' = r.expiring
           /\ ors_warning_indices' = r.warning
           /\ ors_overdue_indices' = r.overdue
           /\ ors_warning_rows' = r.warning
           /\ ors_overdue_rows' = r.overdue

KeepDeadlines ==
    UNCHANGED <<today, expired_indices, expiring_by5_indices, ors_warning_indices,
                ors_overdue_indices, ors_warning_rows, ors_overdue_rows>>

RecalcDuplicates == duplicate_indices' = recalc_duplicate_marks(df_original')

----------------------------------------------------------------------------
(* main.py: MainWindow, loading and the handlers                           *)

\* a registry row
Row(i, cells, archived, deleted) ==
    [idx |-> i, cells |-> cells, is_archived |-> archived, is_deleted |-> deleted]

\* MainWindow.__init__ and _setup_dataframe: the state after loading df
\* (schema cols) on day d
_setup_dataframe(cols, df, d) ==
    /\ columns = cols
    /\ df_original = df
    /\ df_current = df
    /\ clock = d
    /\ today = d
    /\ LET r == recalc_expiring_and_expired(df, d)
       IN  /\ expired_indices = r.expired
           /\ expiring_by5_indices = r.expiring
           /\ ors_warning_indices = r.warning
           /\ ors_overdue_indices = r.overdue
           /\ ors_warning_rows = r.warning
           /\ ors_overdue_rows = r.overdue
    /\ duplicate_indices = recalc_duplicate_marks(df)
    /\ conditions = <<>>
    /\ global_search_text = <<>>
    /\ view_mode = "main"
    /\ result = <<>>

\* df.at[orig_index, column_name] = new_value
set_cell(df, orig_index, column_name, new_value) ==
    [p \in 1..Len(df) |->
        IF df[p].idx = orig_index
        THEN [df[p] EXCEPT !.cells[column_name] = new_value]
        ELSE df[p]]

\* PandasTableModel.setData on a cell of the view, then on_cell_edited
on_cell_edited(orig_index, column_name, new_value) ==
    /\ orig_index \in IndexOf(df_current)
    /\ column_name \in columns
    /\ df_original' = set_cell(df_original, orig_index, column_name, new_value)
    /\ RecalcDeadlines
    /\ RecalcDuplicates
    /\ UNCHANGED <<columns, conditions, global_search_text, view_mode, clock, result>>
    /\ RefreshView

\* pd.concat([...]) without ignore_index: every row keeps the index it had
\* in its own frame, 0 for the one-row frame of the new row
concat_keep_index(df) == [p \in 1..Len(df) |-> df[p]]

\* pd.concat([...], ignore_index=True): the index becomes 0..n-1
ignore_index(df) == [p \in 1..Len(df) |-> [df[p] EXCEPT !.idx = p - 1]]

\* ", ".join of the non-empty parts (the dialogs of the model leave the
\* notice date empty)
pib_block(pib, dob) ==
    IF pib # <<>> /\ dob # <<>> THEN pib \o <<",", " ">> \o dob
    ELSE pib \o dob

\* the one-row frame add_row builds from the dialog's data (its index is 0)
new_row(data) ==
    Row(0,
        [c \in columns |->
            CASE c = "pib" -> Str(pib_block(Strip(data.pib), Strip(data.dob)))
              [] c = "measure" -> Str(Strip(data.measure))
              [] c = "order" -> Str(Strip(data.order_info))
              [] c = "ors" -> Str(Strip(data.ors_info))
              [] OTHER -> Str(<<>>)],
        FALSE, FALSE)

add_row(data) ==
    /\ df_original' = ignore_index(df_original \o <<new_row(data)>>)
    /\ RecalcDeadlines
    /\ RecalcDuplicates
    /\ UNCHANGED <<columns, conditions, global_search_text, view_mode, clock, result>>
    /\ RefreshView

\* df.drop(idxs) in place of setting the is_deleted flag
drop_rows(df, idxs, flag, value) ==
    IF flag = "is_deleted" /\ value
    THEN SelectSeq(df, LAMBDA row : row.idx \notin idxs)
    ELSE [p \in 1..Len(df) |->
             IF df[p].idx \in idxs
             THEN (IF flag = "is_archived" THEN [df[p] EXCEPT !.is_archived = value]
                                           ELSE [df[p] EXCEPT !.is_deleted = value])
             ELSE df[p]]

\* the assignment of the flag with the other flag cleared on the same rows
set_flag_clearing_other(df, idxs, flag, value) ==
    [p \in 1..Len(df) |->
        IF df[p].idx \in idxs
        THEN (IF flag = "is_archived"
              THEN [df[p] EXCEPT !.is_archived = value, !.is_deleted = FALSE]
              ELSE [df[p] EXCEPT !.is_deleted = value, !.is_archived = FALSE])
        ELSE df[p]]

\* df.loc[idxs, flag] = value
set_flag(df, idxs, flag, value) ==
    [p \in 1..Len(df) |->
        IF df[p].idx \in idxs
        THEN (IF flag = "is_archived" THEN [df[p] EXCEPT !.is_archived = value]
                                      ELSE [df[p] EXCEPT !.is_deleted = value])
        ELSE df[p]]

\* update_action_buttons_state: the views in which each button is enabled
to_archive_enabled == view_mode \notin {"archive", "deleted"}

from_archive_enabled == view_mode \notin {"main", "deleted"}

delete_enabled == view_mode # "deleted"

restore_enabled == view_mode \notin {"main", "archive"}

\* get_selected_indices: a non-empty selection of rows of the view
Selections == SUBSET IndexOf(df_current) \ {{}}

\* a flag handler that leaves the duplicate marks as they were
flag_handler_stale_marks(idxs, flag, value) ==
    /\ idxs \in Selections
    /\ df_original' = set_flag(df_original, idxs, flag, value)
    /\ UNCHANGED duplicate_indices
    /\ KeepDeadlines
    /\ UNCHANGED <<columns, conditions, global_search_text, view_mode, clock, result>>
    /\ RefreshView

\* the common body of the four flag handlers
flag_handler(idxs, flag, value) ==
    /\ idxs \in Selections
    /\ df_original' = set_flag(df_original, idxs, flag, value)
    /\ RecalcDuplicates
    /\ KeepDeadlines
    /\ UNCHANGED <<columns, conditions, global_search_text, view_mode, clock, result>>
    /\ RefreshView

move_selected_to_archive(idxs) ==
    to_archive_enabled /\ flag_handler(idxs, "is_archived", TRUE)

move_selected_from_archive(idxs) ==
    from_archive_enabled /\ flag_handler(idxs, "is_archived", FALSE)

delete_selected_rows(idxs) ==
    delete_enabled /\ flag_handler(idxs, "is_deleted", TRUE)

restore_selected_rows(idxs) ==
    restore_enabled /\ flag_handler(idxs, "is_deleted", FALSE)

on_tab_changed(mode) ==
    /\ mode # view_mode
    /\ view_mode' = mode
    /\ UNCHANGED <<columns, df_original, conditions, global_search_text, clock,
                   result, duplicate_indices>>
    /\ KeepDeadlines
    /\ RefreshView

\* the system date moves on to a later day of the calendar cal
ClockAdvance(cal) ==
    /\ \E d \in cal : Ordinal(d) > Ordinal(clock) /\ clock' = d
    /\ UNCHANGED <<columns, df_original, df_current, conditions, global_search_text,
                   view_mode, duplicate_indices, result>>
    /\ KeepDeadlines

----------------------------------------------------------------------------
(* Inputs and environment shared by the specifications                     *)

MaxRows == 2

RegistryColumns == {"pib", "measure", "order", "ors"}

\* a loaded row with text cells
TextRow(i, pib, measure, order, ors, archived, deleted) ==
    Row(i, [c \in RegistryColumns |->
               CASE c = "pib" -> Str(pib)
                 [] c = "measure" -> Str(measure)
                 [] c = "order" -> Str(order)
                 [] c = "ors" -> Str(ors)],
        archived, deleted)

\* the user edits a cell of the view, typing one of the texts that inputs
\* offers for that column
EditCellIn(inputs) ==
    \E i \in IndexOf(df_current), c \in columns :
        \E v \in inputs[c] : on_cell_edited(i, c, Str(v))

\* the user fills in and accepts the add-row dialog (the registry of the
\* model holds at most limit rows)
AddRowIn(dialog, limit) ==
    /\ Len(df_original) < limit
    /\ \E data \in dialog : add_row(data)

Archive == \E idxs \in Selections : move_selected_to_archive(idxs)

Unarchive == \E idxs \in Selections : move_selected_from_archive(idxs)

Delete == \E idxs \in Selections : delete_selected_rows(idxs)

Restore == \E idxs \in Selections : restore_selected_rows(idxs)

ChangeTab == \E mode \in ViewModes : on_tab_changed(mode)

----------------------------------------------------------------------------
(* Spec: a registry under the row handlers, the tabs and the clock         *)

FirstDay == <<2025, 11, 5>>

Calendar == {FirstDay, <<2025, 11, 6>>}

\* a measure that started on 05.05.2025: it expires on FirstDay
MeasureText == <<"x", " ">> \o DateText(5, 5, 2025)

\* an order of 16.10.2025, 20 days before FirstDay
OrderText == DateText(16, 10, 2025)

\* the texts typed into the cells of each column
Inputs ==
    [pib |-> {<<"A">>, <<"B">>}, measure |-> {MeasureText}, order |-> {},
     ors |-> {}]

\* what the add-row dialog returns
DialogData ==
    [pib : {<<"A">>, <<" ", "B">>}, dob : {<<>>}, measure : {MeasureText},
     order_info : {<<>>}, ors_info : {<<>>}]

\* the registries the application starts from
LoadedRegistries ==
    {<<>>, <<TextRow(0, <<"A">>, MeasureText, OrderText, <<>>, FALSE, FALSE)>>}

Init ==
    \E df \in LoadedRegistries : _setup_dataframe(RegistryColumns, df, FirstDay)

EditCell == EditCellIn(Inputs)

AddRow == AddRowIn(DialogData, MaxRows)

Tick == ClockAdvance(Calendar)

Next ==
    \/ EditCell
    \/ AddRow
    \/ Archive
    \/ Unarchive
    \/ Delete
    \/ Restore
    \/ ChangeTab
    \/ Tick

Spec == Init /\ [][Next]_vars

----------------------------------------------------------------------------
(* Claims about the registry (Spec)                                        *)

\* the registry rows, in order, hold pairwise different ids
IdsDistinct(df) ==
    \A p, q \in 1..Len(df) : p # q => df[p].idx # df[q].idx

\* C3: record ids are monotonic and never reused.  In every step the rows
\* already in the registry keep their ids, every row a step appends gets an
\* id greater than all ids issued before (those of soft-deleted rows
\* included), no two rows share an id, and every row of the filtered view
\* is a row of the registry under its own id.
C3_IdsMonotonicStable ==
    [][/\ Len(df_original') >= Len(df_original)
       /\ \A p \in 1..Len(df_original) : df_original'[p].idx = df_original[p].idx
       /\ \A p \in (Len(df_original) + 1)..Len(df_original') :
             \A q \in 1..Len(df_original) : df_original'[p].idx > df_original[q].idx
       /\ IdsDistinct(df_original')
       /\ \A r \in 1..Len(df_current') :
             \E p \in 1..Len(df_original') : df_current'[r] = df_original'[p]]_vars

\* C3 witness: a row appended by add_row (the loaded registries hold at most
\* one row) carries an id above that of a soft-deleted row
C3_Witness ==
    /\ Len(df_original) = 2
    /\ df_original[1].is_deleted
    /\ ~df_original[2].is_deleted
    /\ df_original[2].idx > df_original[1].idx

\* C4: deletion is soft.  No step removes a row or changes which record a
\* row is, so the number of records never decreases; and a step that changes
\* an is_deleted flag changes nothing else in the registry.
C4_SoftDelete ==
    [][/\ Len(df_original') >= Len(df_original)
       /\ \A p \in 1..Len(df_original) : df_original'[p].idx = df_original[p].idx
       /\ (\E p \in 1..Len(df_original) :
               df_original'[p].is_deleted # df_original[p].is_deleted)
          => /\ Len(df_original') = Len(df_original)
             /\ \A p \in 1..Len(df_original) :
                   [df_original'[p] EXCEPT !.is_deleted = df_original[p].is_deleted]
                       = df_original[p]]_vars

\* C4 witness: after a delete the deleted record is still in the registry,
\* beside a live one, and is shown in the deleted view
C4_Witness ==
    /\ Len(df_original) = 2
    /\ df_original[1].is_deleted
    /\ ~df_original[2].is_deleted
    /\ view_mode = "deleted"
    /\ df_current = <<df_original[1]>>

\* the highlight sets as stored
StoredDeadlineSets ==
    [expired |-> expired_indices, expiring |-> expiring_by5_indices,
     warning |-> ors_warning_indices, overdue |-> ors_overdue_indices]

\* C5 as amended: in every state the duplicate set equals a recompute over
\* the current registry, and the four deadline sets equal the deadline
\* recompute over the current registry for the date read at the last
\* deadline recompute (load, cell edit, append).
C5_SetsFreshAsOfLastRecompute ==
    /\ duplicate_indices = recalc_duplicate_marks(df_original)
    /\ StoredDeadlineSets = recalc_expiring_and_expired(df_original, today)
    /\ ors_warning_rows = ors_warning_indices
    /\ ors_overdue_rows = ors_overdue_indices

\* C5 as stated: after every step that changes the registry, every stored
\* highlight set equals a fresh recompute (which reads the current date)
C5_SetsFreshAfterMutation ==
    [][df_original' # df_original
          => /\ duplicate_indices' = recalc_duplicate_marks(df_original')
             /\ [expired |-> expired_indices', expiring |-> expiring_by5_indices',
                 warning |-> ors_warning_indices', overdue |-> ors_overdue_indices']
                  = recalc_expiring_and_expired(df_original', clock')]_vars

\* C5 witness: a record was deleted after the date changed; the deadline
\* sets are those of the earlier date and differ from a fresh recompute
C5_Witness ==
    /\ \E p \in 1..Len(df_original) : df_original[p].is_deleted
    /\ clock # today
    /\ StoredDeadlineSets = recalc_expiring_and_expired(df_original, today)
    /\ StoredDeadlineSets # recalc_expiring_and_expired(df_original, clock)

----------------------------------------------------------------------------
(* SpecFilter: apply_filters on a registry and a condition list            *)

MaxFilterRows == 3

MaxConds == 2

FilterColumns == {"status", "when", "note"}

\* a row of the filter registry: a text or missing status, a datetime
\* column, a free-text note
FilterRow(status, when, note) ==
    [status |-> status, when |-> when, note |-> Str(note)]

RowCatalogue ==
    {FilterRow(Str(<<"A">>), Date(<<2025, 1, 10>>), <<"x", " ">> \o DateText(10, 1, 2025)),
     FilterRow(Str(<<"a", "b">>), Date(<<2025, 2, 1>>), <<>>),
     FilterRow(NaN, NaN, DateText(31, 2, 2025)),
     FilterRow(Str(<<"B">>), Date(<<2025, 1, 10>>), DateText(1, 2, 2025))}

\* the registries of n rows, index 0..n-1
FilterRegistriesOf(n) ==
    {[p \in 1..n |-> Row(p - 1, cells[p], FALSE, FALSE)] :
        cells \in [1..n -> RowCatalogue]}

FilterRegistries == UNION {FilterRegistriesOf(n) : n \in 0..MaxFilterRows}

ConditionCatalogue ==
    {FilterCondition("status", "CONTAINS", Str(<<"a">>)),
     FilterCondition("status", "EQUALS", Str(<<"A">>)),
     FilterCondition("status", "NOT_EQUALS", Str(<<"A">>)),
     FilterCondition("when", "RANGE", <<<<2025, 1, 10>>, NoBound>>),
     FilterCondition("note", "RANGE", <<<<2025, 1, 10>>, <<2025, 2, 1>>>>),
     FilterCondition("note", "RANGE", <<NoBound, NoBound>>),
     FilterCondition("note", "CONTAINS", Str(<<"0", "1", ".">>)),
     FilterCondition("ghost", "EQUALS", Str(<<"A">>))}

ConditionLists ==
    UNION {[1..n -> ConditionCatalogue] : n \in 0..MaxConds}

\* the registry df loaded, its deadline sets computed, and the condition
\* list conds; no call of apply_filters made yet
filter_loaded(df, conds) ==
    /\ columns = FilterColumns
    /\ df_original = df
    /\ df_current = df
    /\ conditions = conds
    /\ global_search_text = <<>>
    /\ view_mode = "main"
    /\ LET r == recalc_expiring_and_expired(df, FirstDay)
       IN  /\ expired_indices = r.expired
           /\ expiring_by5_indices = r.expiring
           /\ ors_warning_indices = r.warning
           /\ ors_overdue_indices = r.overdue
           /\ ors_warning_rows = r.warning
           /\ ors_overdue_rows = r.overdue
    /\ duplicate_indices = {}
    /\ clock = FirstDay
    /\ today = FirstDay
    /\ result = <<>>

InitFilter ==
    \E df \in FilterRegistries, conds \in ConditionLists : filter_loaded(df, conds)

\* result = apply_filters(df_original, conditions); result holds the frame
\* the call returned
ApplyFilters ==
    /\ result = <<>>
    /\ result' = <<apply_filters(df_original, conditions)>>
    /\ UNCHANGED <<columns, df_original, df_current, conditions, global_search_text,
                   view_mode, expired_indices, expiring_by5_indices,
                   ors_warning_indices, ors_overdue_indices, ors_warning_rows,
                   ors_overdue_rows, duplicate_indices, clock, today>>

NextFilter == ApplyFilters

SpecFilter == InitFilter /\ [][NextFilter]_vars

----------------------------------------------------------------------------
(* Claims about apply_filters (SpecFilter)                                 *)

\* the call has returned
Applied == Len(result) = 1

\* a record satisfies a condition: the condition's mask is true for it; a
\* condition on a column the registry does not have is satisfied by all
Satisfies(row, cond) ==
    cond.column \in columns => condition_mask(row, cond)

\* every condition applied in turn, without stopping on an empty result
RECURSIVE EvaluateAll(_, _, _)
EvaluateAll(df, conds, i) ==
    IF i > Len(conds) THEN df
    ELSE EvaluateAll(_apply_single_condition(df, conds[i]), conds, i + 1)

PositionOf(i) == CHOOSE p \in 1..Len(df_original) : df_original[p].idx = i

\* C2: the result of apply_filters is a subsequence of the registry: every
\* row of the result is a registry record under its own id, the rows come in
\* the registry's order, and no record occurs twice.
C2_ResultIsSubsequence ==
    Applied =>
        /\ \A k \in 1..Len(result[1]) :
              /\ result[1][k].idx \in IndexOf(df_original)
              /\ result[1][k] = df_original[PositionOf(result[1][k].idx)]
        /\ \A k, l \in 1..Len(result[1]) :
              k < l => PositionOf(result[1][k].idx) < PositionOf(result[1][l].idx)

\* C2 witness: a condition removed the first record of the registry and
\* kept the second, which still has its id
C2_Witness ==
    /\ Applied
    /\ Len(df_original) = 2
    /\ conditions # <<>>
    /\ result[1] = <<df_original[2]>>
    /\ result[1][1].idx = 1

----------------------------------------------------------------------------
(* SpecDup: names, flags and the duplicate marks                           *)

\* the names typed into the name cell: two texts with the key "A", the
\* key "a", an empty name
NameInputs ==
    [pib |-> {<<"A">>, <<" ", "A", ",", "a">>, <<"a">>, <<>>},
     measure |-> {}, order |-> {}, ors |-> {}]

NameDialogData ==
    [pib : {<<"A">>, <<>>}, dob : {<<>>}, measure : {<<>>},
     order_info : {<<>>}, ors_info : {<<>>}]

InitDup == _setup_dataframe(RegistryColumns, <<>>, FirstDay)

EditCellDup == EditCellIn(NameInputs)

AddRowDup == AddRowIn(NameDialogData, MaxRows)

NextDup ==
    \/ EditCellDup
    \/ AddRowDup
    \/ Archive
    \/ Unarchive
    \/ Delete
    \/ Restore
    \/ ChangeTab

SpecDup == InitDup /\ [][NextDup]_vars

----------------------------------------------------------------------------
(* Claims about the duplicate marks (SpecDup)                              *)

\* the identity key of a name: the text before its first comma, without
\* the spaces at its ends
IdentityKey(s) ==
    LET commas == {p \in 1..Len(s) : s[p] = ","}
        head == IF commas = {} THEN s
                ELSE SubSeq(s, 1, (CHOOSE p \in commas : \A q \in commas : p <= q) - 1)
        inked == {p \in 1..Len(head) : head[p] # " "}
    IN  IF inked = {} THEN <<>>
        ELSE SubSeq(head, CHOOSE p \in inked : \A q \in inked : p <= q,
                          CHOOSE p \in inked : \A q \in inked : p >= q)

\* the ids of the non-deleted records of df whose identity key is k
LiveWithKey(df, k) ==
    {df[p].idx : p \in {q \in 1..Len(df) :
        ~df[q].is_deleted /\ IdentityKey(df[q].cells["pib"].v) = k}}

\* the keys of the records of df
KeysOf(df) == {IdentityKey(df[p].cells["pib"].v) : p \in 1..Len(df)}

\* C6 as amended: the duplicate set is exactly the set of non-deleted
\* records whose identity key is not empty and is the key of at least one
\* other non-deleted record; archived records take part.
C6_DuplicatesShareNonEmptyKey ==
    duplicate_indices =
        UNION {LiveWithKey(df_original, k) : k \in
                  {kk \in KeysOf(df_original) :
                      kk # <<>> /\ Cardinality(LiveWithKey(df_original, kk)) >= 2}}

\* C6 as stated: every key shared by two non-deleted records marks them,
\* the empty key included
C6_DuplicatesShareKey ==
    duplicate_indices =
        UNION {LiveWithKey(df_original, k) : k \in
                  {kk \in KeysOf(df_original) :
                      Cardinality(LiveWithKey(df_original, kk)) >= 2}}

\* C6 witness: two non-deleted records, one of them archived, with
\* different names and the same key, both marked
C6_Witness ==
    /\ Len(df_original) = 2
    /\ df_original[1].is_archived /\ ~df_original[2].is_archived
    /\ df_original[1].cells["pib"] # df_original[2].cells["pib"]
    /\ duplicate_indices = {0, 1}

\* the step changes the is_deleted flag of record i from from to to and
\* nothing else in the registry
FlagFlip(i, from, to) ==
    /\ \E p \in 1..Len(df_original) :
          df_original[p].idx = i /\ df_original[p].is_deleted = from
    /\ df_original' = [p \in 1..Len(df_original) |->
                          IF df_original[p].idx = i
                          THEN [df_original[p] EXCEPT !.is_deleted = to]
                          ELSE df_original[p]]

\* what C7 asks of a step, for the records with key k
PairRule(k) ==
    \A i \in IndexOf(df_original) :
        /\ (FlagFlip(i, FALSE, TRUE) /\ i \in LiveWithKey(df_original, k)
                /\ Cardinality(LiveWithKey(df_original, k)) = 2)
           => LiveWithKey(df_original, k) \cap duplicate_indices' = {}
        /\ (FlagFlip(i, TRUE, FALSE) /\ i \in LiveWithKey(df_original', k)
                /\ Cardinality(LiveWithKey(df_original', k)) = 2)
           => LiveWithKey(df_original', k) \subseteq duplicate_indices'

\* C7 as amended: when exactly two non-deleted records share a non-empty
\* identity key, the step that soft-deletes one of them leaves neither in
\* the duplicate set, and the step that restores a record so that exactly
\* two non-deleted records share its non-empty key leaves both in the set.
C7_PairDeleteRestoreNonEmptyKey ==
    [][\A k \in KeysOf(df_original) : k # <<>> => PairRule(k)]_vars

\* C7 as stated: the same for every key, the empty key included
C7_PairDeleteRestore ==
    [][\A k \in KeysOf(df_original) : PairRule(k)]_vars

\* C7 witness: one of two records with the same non-empty key has been
\* deleted; neither is marked
C7_Witness ==
    /\ Len(df_original) = 2
    /\ IdentityKey(df_original[1].cells["pib"].v) # <<>>
    /\ IdentityKey(df_original[1].cells["pib"].v)
           = IdentityKey(df_original[2].cells["pib"].v)
    /\ df_original[1].is_deleted /\ ~df_original[2].is_deleted
    /\ duplicate_indices = {}

----------------------------------------------------------------------------
(* SpecMeasure: the measure column under edits, appends and the clock      *)

\* a day before the cutoff and a day after it
EarlyDay == <<2025, 8, 25>>

LateDay == <<2025, 9, 20>>

DeadlineCalendar == {EarlyDay, LateDay}

\* start dates of measures; the expiry of each is six months later:
\* 28.08, 01.09 (the cutoff), 19.09, 20.09, 30.09 (31.09 does not exist),
\* 01.10; then a text without a date, one whose first pattern is not a
\* date, and one with two dates
MeasureTexts ==
    {DateText(28, 2, 2025),
     <<"x", " ">> \o DateText(1, 3, 2025),
     DateText(19, 3, 2025),
     DateText(20, 3, 2025),
     DateText(31, 3, 2025),
     DateText(1, 4, 2025),
     <<"x">>,
     DateText(31, 2, 2025) \o <<" ">> \o DateText(19, 3, 2025),
     DateText(1, 4, 2025) \o <<" ">> \o DateText(19, 3, 2025)}

MeasureInputs ==
    [pib |-> {}, measure |-> MeasureTexts, order |-> {}, ors |-> {}]

MeasureDialogData ==
    [pib : {<<"A">>}, dob : {<<>>}, measure : {<<>>, <<" ">> \o DateText(31, 3, 2025)},
     order_info : {<<>>}, ors_info : {<<>>}]

InitMeasure == _setup_dataframe(RegistryColumns, <<>>, EarlyDay)

EditCellMeasure == EditCellIn(MeasureInputs)

AddRowMeasure == AddRowIn(MeasureDialogData, MaxRows)

TickDeadline == ClockAdvance(DeadlineCalendar)

NextMeasure ==
    \/ EditCellMeasure
    \/ AddRowMeasure
    \/ TickDeadline

SpecMeasure == InitMeasure /\ [][NextMeasure]_vars

----------------------------------------------------------------------------
(* Claims about the measure rule (SpecMeasure)                             *)

\* the first date of the measure field of the row at position p
MeasureDate(p) == first_date(df_original[p].cells["measure"])

\* expiry - today in days, today being the date the recompute read
DaysLeft(p) == Ordinal(AddMonths(MeasureDate(p), 6)) - Ordinal(today)

\* the expiry is on or after the cutoff
FromCutoff(p) == Ordinal(AddMonths(MeasureDate(p), 6)) >= Ordinal(cutoff_5)

IsExpired(p) == df_original[p].idx \in expired_indices

IsExpiringSoon(p) == df_original[p].idx \in expiring_by5_indices

\* C8 as amended: a record whose expiry is on or after the cutoff is in
\* expired iff daysLeft < 0 and in expiring_soon iff 0 <= daysLeft <= 10;
\* a record without a date in the measure field is in neither set; no
\* record is in both.
C8_MeasureRuleFromCutoff ==
    \A p \in 1..Len(df_original) :
        /\ MeasureDate(p) = NaT => ~IsExpired(p) /\ ~IsExpiringSoon(p)
        /\ (MeasureDate(p) # NaT /\ FromCutoff(p))
           => /\ IsExpired(p) <=> DaysLeft(p) < 0
              /\ IsExpiringSoon(p) <=> (0 <= DaysLeft(p) /\ DaysLeft(p) <= 10)
        /\ ~(IsExpired(p) /\ IsExpiringSoon(p))

\* C8 as stated: the same for every record with a date, whatever its expiry
C8_MeasureRule ==
    \A p \in 1..Len(df_original) :
        /\ MeasureDate(p) = NaT => ~IsExpired(p) /\ ~IsExpiringSoon(p)
        /\ MeasureDate(p) # NaT
           => /\ IsExpired(p) <=> DaysLeft(p) < 0
              /\ IsExpiringSoon(p) <=> (0 <= DaysLeft(p) /\ DaysLeft(p) <= 10)
        /\ ~(IsExpired(p) /\ IsExpiringSoon(p))

\* C8 witness: a measure that expires 10 days after today is expiring_soon
\* and one that expired yesterday is expired
C8_Witness ==
    /\ Len(df_original) = 2
    /\ MeasureDate(1) # NaT /\ DaysLeft(1) = 10 /\ IsExpiringSoon(1)
    /\ MeasureDate(2) # NaT /\ DaysLeft(2) = -1 /\ IsExpired(2)

\* C9: a record whose expiry is before the cutoff is in neither set,
\* whatever daysLeft is; a record whose expiry is on or after the cutoff
\* and at most 10 days ahead is in one of the two sets.
C9_CutoffExcludes ==
    \A p \in 1..Len(df_original) :
        MeasureDate(p) # NaT =>
            /\ ~FromCutoff(p) => ~IsExpired(p) /\ ~IsExpiringSoon(p)
            /\ (FromCutoff(p) /\ DaysLeft(p) <= 10) => IsExpired(p) \/ IsExpiringSoon(p)

\* C9 witness: on a day before the cutoff, a measure that expires in 3 days,
\* before the cutoff, is in neither set, and one that expires on the cutoff
\* day is expiring_soon
C9_Witness ==
    /\ Len(df_original) = 2
    /\ MeasureDate(1) # NaT /\ ~FromCutoff(1) /\ DaysLeft(1) = 3
    /\ ~IsExpired(1) /\ ~IsExpiringSoon(1)
    /\ MeasureDate(2) # NaT /\ AddMonths(MeasureDate(2), 6) = cutoff_5
    /\ IsExpiringSoon(2)

----------------------------------------------------------------------------
(* SpecCase: the order and case-number columns under edits and the clock   *)

\* the day an order is issued, and LateDay
OrderDay == <<2025, 8, 30>>

CaseCalendar == {OrderDay, LateDay}

\* an order dated the day after OrderDay, 20 days before LateDay; one dated
\* OrderDay, 21 days before LateDay; a text whose pattern is not a date
OrderTexts ==
    {<<"N", "1", " ">> \o DateText(31, 8, 2025),
     DateText(30, 8, 2025),
     DateText(31, 2, 2025)}

\* case-number cells: a number without a date, a number with a date
OrsTexts ==
    {<<"1", "2", "3">>,
     <<"5", " ">> \o DateText(1, 9, 2025)}

CaseInputs ==
    [pib |-> {}, measure |-> {}, order |-> OrderTexts, ors |-> OrsTexts]

CaseDialogData ==
    [pib : {<<"A">>}, dob : {<<>>}, measure : {<<>>},
     order_info : {<<>>, DateText(30, 8, 2025)}, ors_info : {<<>>}]

InitCase == _setup_dataframe(RegistryColumns, <<>>, OrderDay)

EditCellCase == EditCellIn(CaseInputs)

AddRowCase == AddRowIn(CaseDialogData, MaxRows)

TickCase == ClockAdvance(CaseCalendar)

NextCase ==
    \/ EditCellCase
    \/ AddRowCase
    \/ TickCase

SpecCase == InitCase /\ [][NextCase]_vars

----------------------------------------------------------------------------
(* Claims about the case-opening rule (SpecCase)                           *)

OrderDate(p) == first_date(df_original[p].cells["order"])

\* the case-number field of the row at position p holds a date
HasCaseDate(p) == first_date(df_original[p].cells["ors"]) # NaT

\* today - orderDate in days, today being the date the recompute read
DaysPassed(p) == Ordinal(today) - Ordinal(OrderDate(p))

IsCaseWarning(p) == df_original[p].idx \in ors_warning_indices

IsCaseOverdue(p) == df_original[p].idx \in ors_overdue_indices

\* C10: a record whose order field has a date and whose case-number field
\* has none is in case_warning iff 0 <= daysPassed <= 20 and in
\* case_overdue iff daysPassed > 20; every other record is in neither set;
\* no record is in both.
C10_CaseRule ==
    \A p \in 1..Len(df_original) :
        /\ (OrderDate(p) # NaT /\ ~HasCaseDate(p))
           => /\ IsCaseWarning(p) <=> (0 <= DaysPassed(p) /\ DaysPassed(p) <= 20)
              /\ IsCaseOverdue(p) <=> DaysPassed(p) > 20
        /\ (OrderDate(p) = NaT \/ HasCaseDate(p))
           => ~IsCaseWarning(p) /\ ~IsCaseOverdue(p)
        /\ ~(IsCaseWarning(p) /\ IsCaseOverdue(p))

\* C10 witness: an order of 20 days ago is in case_warning, one of 21 days
\* ago is in case_overdue
C10_Witness ==
    /\ Len(df_original) = 2
    /\ OrderDate(1) # NaT /\ ~HasCaseDate(1) /\ DaysPassed(1) = 20 /\ IsCaseWarning(1)
    /\ OrderDate(2) # NaT /\ ~HasCaseDate(2) /\ DaysPassed(2) = 21 /\ IsCaseOverdue(2)

\* the case-number field of the row at position p is filled in
HasCaseNumber(p) == Strip(df_original[p].cells["ors"].v) # <<>>

\* C11: a record whose case-number field holds a case number is in neither
\* case_warning nor case_overdue, whatever its order date and the day.
C11_CaseNumberNeverClassified ==
    \A p \in 1..Len(df_original) :
        HasCaseNumber(p) => ~IsCaseWarning(p) /\ ~IsCaseOverdue(p)

----------------------------------------------------------------------------
(* main.py: MainWindow, the condition panel and the search box             *)

\* columns whose dtype is numeric / boolean
NumericCols == {"n"}

BoolCols == {}

is_numeric_dtype(col) == col \in NumericCols

is_bool_dtype(col) == col \in BoolCols

\* _is_date_like_column: a datetime column, or a column in which the text
\* of some cell holds the pattern dd.mm.yyyy
_is_date_like_column(df, col) ==
    \/ is_datetime64_any_dtype(col)
    \/ \E p \in 1..Len(df) : first_match(astype_str(df[p].cells[col]), 1) # 0

\* the value pd.to_datetime raises on
ParseError == <<-1>>

\* pd.to_datetime(txt, format="%d.%m.%Y") of a whole text: the date, or
\* ParseError where the call raises (the texts of the model write days and
\* months with two digits)
strict_to_datetime(txt) ==
    IF Len(txt) = 10 /\ DatePatternAt(txt, 1) /\ to_datetime(txt) # NaT
    THEN to_datetime(txt)
    ELSE ParseError

\* a parse_date that swallows the error and leaves the bound open
parse_date_or_open(txt) ==
    IF txt = <<>> \/ strict_to_datetime(txt) = ParseError THEN NoBound
    ELSE strict_to_datetime(txt)

\* parse_date of add_condition_from_ui
parse_date(txt) == IF txt = <<>> THEN NoBound ELSE strict_to_datetime(txt)

\* the value of a text of digits, read from the left with acc so far
RECURSIVE digits_value(_, _)
digits_value(txt, acc) ==
    IF txt = <<>> THEN acc
    ELSE digits_value(Tail(txt), 10 * acc + DigitVal(Head(txt)))

\* int(raw_value) succeeds (the texts of the model: plain digits or not a
\* number at all, on which float(raw_value) raises as well)
is_int_text(txt) == txt # <<>> /\ \A k \in 1..Len(txt) : IsDigit(txt[k])

\* str.lower() of a text
lower(txt) == [k \in 1..Len(txt) |-> LowerChar(txt[k])]

TruthyTexts == {<<"t", "r", "u", "e">>, <<"1">>}

FalsyTexts == {<<"f", "a", "l", "s", "e">>, <<"0">>, <<"n", "o">>}

\* the operand of a text condition: raw_value coerced by the dtype of the
\* column; what does not convert stays the text
coerce_value(col, raw_value) ==
    CASE is_bool_dtype(col) ->
             IF lower(raw_value) \in TruthyTexts THEN Bool(TRUE)
             ELSE IF lower(raw_value) \in FalsyTexts THEN Bool(FALSE)
             ELSE Str(raw_value)
      [] is_datetime64_any_dtype(col) ->
             IF strict_to_datetime(raw_value) # ParseError
             THEN Date(strict_to_datetime(raw_value))
             ELSE Str(raw_value)
      [] is_numeric_dtype(col) ->
             IF is_int_text(raw_value) THEN Num(digits_value(raw_value, 0))
             ELSE Str(raw_value)
      [] OTHER -> Str(raw_value)

\* cb_operator: the three operators the panel offers
OperatorTexts == {"CONTAINS", "EQUALS", "NOT_EQUALS"}

\* the widgets add_condition_from_ui reads
UiState(column, date_from, date_to, op_text, value) ==
    [column |-> column, date_from |-> date_from, date_to |-> date_to,
     op_text |-> op_text, value |-> value]

\* the condition list after add_condition_from_ui has read the widgets ui:
\* unchanged where the handler returns without appending
conditions_after_add(df, conds, ui) ==
    LET from_text == Strip(ui.date_from)
        to_text == Strip(ui.date_to)
        raw_value == Strip(ui.value)
    IN  IF _is_date_like_column(df, ui.column) /\ (from_text # <<>> \/ to_text # <<>>)
        THEN IF parse_date(from_text) = ParseError \/ parse_date(to_text) = ParseError
             THEN conds
             ELSE Append(conds, FilterCondition(ui.column, "RANGE",
                                    <<parse_date(from_text), parse_date(to_text)>>))
        ELSE IF raw_value = <<>> THEN conds
        ELSE Append(conds, FilterCondition(ui.column, ui.op_text,
                               coerce_value(ui.column, raw_value)))

add_condition_from_ui(ui) ==
    /\ ui.column \in columns
    /\ conditions' = conditions_after_add(df_original, conditions, ui)
    /\ UNCHANGED <<columns, df_original, global_search_text, view_mode, clock,
                   result, duplicate_indices>>
    /\ KeepDeadlines
    /\ IF conditions' = conditions THEN UNCHANGED df_current ELSE RefreshView

\* del self.conditions[idx]
remove_at(conds, idx) ==
    [k \in 1..(Len(conds) - 1) |-> IF k < idx THEN conds[k] ELSE conds[k + 1]]

\* remove_selected_condition with row idx of the list selected (1-based here)
remove_selected_condition(idx) ==
    /\ idx \in 1..Len(conditions)
    /\ conditions' = remove_at(conditions, idx)
    /\ UNCHANGED <<columns, df_original, global_search_text, view_mode, clock,
                   result, duplicate_indices>>
    /\ KeepDeadlines
    /\ RefreshView

clear_conditions ==
    /\ conditions' = <<>>
    /\ UNCHANGED <<columns, df_original, global_search_text, view_mode, clock,
                   result, duplicate_indices>>
    /\ KeepDeadlines
    /\ RefreshView

on_global_search(text) ==
    /\ global_search_text' = Strip(text)
    /\ UNCHANGED <<columns, df_original, conditions, view_mode, clock, result,
                   duplicate_indices>>
    /\ KeepDeadlines
    /\ RefreshView

\* the text rendering stored back into the columns the recompute reads
\* (df[col] = df[col].astype(str))
registry_with_text_columns(df) ==
    [p \in 1..Len(df) |->
        [df[p] EXCEPT !.cells = [c \in DOMAIN df[p].cells |->
            IF c \in {"measure", "order", "ors"}
            THEN Str(astype_str(df[p].cells[c]))
            ELSE df[p].cells[c]]]]

\* the registry after recalc_expiring_and_expired has run on it: the method
\* reads df[col].astype(str), a new Series, and assigns nothing to df
registry_after_recalc(df) == df

\* the call self.recalc_expiring_and_expired() as a step of its own
recalc_step ==
    /\ df_original' = registry_after_recalc(df_original)
    /\ RecalcDeadlines
    /\ UNCHANGED <<columns, df_current, conditions, global_search_text, view_mode,
                   clock, result, duplicate_indices>>

----------------------------------------------------------------------------
(* SpecView: a loaded registry under the condition panel, the deadline     *)
(* recompute and the clock                                                 *)

ViewColumns == {"measure", "n"}

\* a row of the loaded table: the measure column (object dtype) and the
\* numeric column n
ViewRow(i, measure, n) ==
    Row(i, [c \in ViewColumns |-> IF c = "measure" THEN measure ELSE n], FALSE, FALSE)

\* a table with a measure text and a number and a row of missing values, a
\* table of missing values, and a table whose measure cell was read from
\* the sheet as the number 5
ViewRegistries ==
    {<<ViewRow(0, Str(DateText(19, 3, 2025)), Num(5)), ViewRow(1, NaN, NaN)>>,
     <<ViewRow(0, NaN, NaN)>>,
     <<ViewRow(0, Num(5), Num(5))>>}

\* what the user can leave in the widgets of the condition panel
UiStates ==
    {UiState(c, f, <<>>, o, v) :
        c \in ViewColumns,
        f \in {<<>>, DateText(19, 3, 2025), DateText(31, 2, 2025)},
        o \in {"EQUALS", "NOT_EQUALS"},
        v \in {<<" ", "5", " ">>, <<"a", "b">>}}

InitView ==
    \E df \in ViewRegistries : _setup_dataframe(ViewColumns, df, EarlyDay)

AddCondition ==
    /\ Len(conditions) < MaxConds
    /\ \E ui \in UiStates : add_condition_from_ui(ui)

RemoveCondition == \E idx \in 1..Len(conditions) : remove_selected_condition(idx)

ClearConditions == conditions # <<>> /\ clear_conditions

Recompute == recalc_step

TickView == ClockAdvance(DeadlineCalendar)

NextView ==
    \/ AddCondition
    \/ RemoveCondition
    \/ ClearConditions
    \/ Recompute
    \/ TickView

SpecView == InitView /\ [][NextView]_vars

----------------------------------------------------------------------------
(* Claims about the derived computations (SpecView)                        *)

\* C12: the deadline recompute and the filter apply are purely derived.  No
\* step of SpecView, whose steps are the recompute, the handlers that run
\* the filter apply, and the clock, changes any row of the registry; every
\* row of the filtered view is a row of the registry; and a step after
\* which the recompute's date is the same leaves the four sets the same
\* (a second recompute on the same day yields what the first did).
C12_DerivedOnly ==
    [][/\ df_original' = df_original
       /\ \A r \in 1..Len(df_current') :
             \E p \in 1..Len(df_original) : df_current'[r] = df_original[p]
       /\ today' = today =>
             [expired |-> expired_indices', expiring |-> expiring_by5_indices',
              warning |-> ors_warning_indices', overdue |-> ors_overdue_indices']
                 = StoredDeadlineSets]_vars

\* C12 witness: the recompute has run on the later day (a record is
\* expired) and the filter apply has left a record out of the view; the
\* registry still holds its missing values
C12_Witness ==
    /\ today = LateDay
    /\ expired_indices = {0}
    /\ conditions # <<>>
    /\ Len(df_current) = 1
    /\ Len(df_original) = 2
    /\ df_original[2].cells["measure"] = NaN

----------------------------------------------------------------------------
(* Claims about absent columns (SpecFilter)                                *)

\* the conditions of the list whose column the registry has
PresentConditions == SelectSeq(conditions, LAMBDA c : c.column \in columns)

\* C13: a condition on a field the registry does not have filters nothing:
\* apply_filters returns what it returns for the list without that
\* condition, and such a condition alone returns the registry.  A deadline
\* rule whose fields the registry does not have classifies no record: the
\* four stored sets are empty, and the recompute yields empty sets on every
\* day, although notes of the registry carry dates.
C13_AbsentFieldIsNoOp ==
    /\ Applied => result[1] = apply_filters(df_original, PresentConditions)
    /\ \A i \in 1..Len(conditions) :
          conditions[i].column \notin columns
              => _apply_single_condition(df_original, conditions[i]) = df_original
    /\ StoredDeadlineSets =
          [expired |-> {}, expiring |-> {}, warning |-> {}, overdue |-> {}]
    /\ \A d \in DeadlineCalendar \cup Calendar :
          recalc_expiring_and_expired(df_original, d) =
              [expired |-> {}, expiring |-> {}, warning |-> {}, overdue |-> {}]

\* C13 witness: a list with a condition on the absent column and another
\* condition that removed a record; the result is not empty, and a record
\* of the registry has a date in its note
C13_Witness ==
    /\ Applied
    /\ Len(conditions) = 2
    /\ conditions[1].column \notin columns
    /\ conditions[2].column \in columns
    /\ result[1] # <<>>
    /\ Len(result[1]) < Len(df_original)
    /\ col5_name = None /\ col7_name = None /\ col8_name = None
    /\ \E p \in 1..Len(df_original) :
          first_date(df_original[p].cells["note"]) # NaT

----------------------------------------------------------------------------
(* SpecOperator: apply_filters called with one condition, for every        *)
(* operator, column and operand                                            *)

\* operands of every type, among them values the registry holds
OperandCatalogue ==
    {Str(<<"A">>), Str(<<"a">>), Str(<<"a", "b">>), Str(<<"B">>),
     Date(<<2025, 1, 10>>), Date(<<2025, 2, 1>>), Num(5), Bool(TRUE), NaN}

\* the bounds a RANGE operand is built from
RangeBounds == {NoBound, <<2025, 1, 10>>, <<2025, 1, 11>>, <<2025, 2, 1>>}

OperatorConditions ==
    {FilterCondition(c, op, v) :
        c \in FilterColumns, op \in {"CONTAINS", "EQUALS", "NOT_EQUALS"},
        v \in OperandCatalogue}
    \cup {FilterCondition(c, "RANGE", <<lo, hi>>) :
        c \in FilterColumns, lo \in RangeBounds, hi \in RangeBounds}

InitOperator == \E df \in FilterRegistries : filter_loaded(df, <<>>)

\* result = apply_filters(df_original, [cond])
ApplyCondition ==
    /\ result = <<>>
    /\ \E cond \in OperatorConditions :
          /\ conditions' = <<cond>>
          /\ result' = <<apply_filters(df_original, conditions')>>
    /\ UNCHANGED <<columns, df_original, df_current, global_search_text,
                   view_mode, expired_indices, expiring_by5_indices,
                   ors_warning_indices, ors_overdue_indices, ors_warning_rows,
                   ors_overdue_rows, duplicate_indices, clock, today>>

NextOperator == ApplyCondition

SpecOperator == InitOperator /\ [][NextOperator]_vars

----------------------------------------------------------------------------
(* Claims about the operators (SpecOperator)                               *)

\* the ids of the records one condition on column c selects
SelectedBy(c, op, v) ==
    IndexOf(_apply_single_condition(df_original, FilterCondition(c, op, v)))

\* the ids of the records whose field c is not missing
NonNull(c) ==
    {df_original[p].idx : p \in {q \in 1..Len(df_original) :
                                    df_original[q].cells[c] # NaN}}

\* the call has returned for a single condition with operator op
AppliedOne(op) == Applied /\ Len(conditions) = 1 /\ conditions[1].operator = op

\* C14: over the records whose field value is not missing, the records
\* NOT_EQUALS selects are exactly those EQUALS does not select, for every
\* column and operand: whichever of the two apply_filters has run, its
\* result and the other's selection split the non-missing records.
C14_NotEqualsIsComplement ==
    /\ AppliedOne("NOT_EQUALS") =>
          IndexOf(result[1]) \cap NonNull(conditions[1].column)
              = NonNull(conditions[1].column)
                  \ SelectedBy(conditions[1].column, "EQUALS", conditions[1].value)
    /\ AppliedOne("EQUALS") =>
          SelectedBy(conditions[1].column, "NOT_EQUALS", conditions[1].value)
                  \cap NonNull(conditions[1].column)
              = NonNull(conditions[1].column) \ IndexOf(result[1])

\* C14 witness: apply_filters has run a NOT_EQUALS condition on a registry
\* with a record equal to the operand, a record unequal to it and a record
\* with the field missing, and dropped one record
C14_Witness ==
    /\ AppliedOne("NOT_EQUALS")
    /\ conditions[1] = FilterCondition("status", "NOT_EQUALS", Str(<<"A">>))
    /\ Len(df_original) = 3
    /\ Len(result[1]) = 2
    /\ SelectedBy("status", "EQUALS", Str(<<"A">>)) # {}
    /\ NonNull("status") \ SelectedBy("status", "EQUALS", Str(<<"A">>)) # {}
    /\ NonNull("status") # IndexOf(df_original)

\* C15: a record whose field value is missing matches no CONTAINS, EQUALS
\* or NOT_EQUALS condition, whatever the operand, and no RANGE condition
\* with a bound: the result of apply_filters for such a condition holds
\* only records whose field is not missing.
C15_MissingNeverMatches ==
    (/\ Applied
     /\ Len(conditions) = 1
     /\ conditions[1].operator = "RANGE" =>
            conditions[1].value # <<NoBound, NoBound>>)
        => IndexOf(result[1]) \subseteq NonNull(conditions[1].column)

\* the date of a record's field: the value of a datetime column, else the
\* first dd.mm.yyyy date of the text; NaT when there is none
RecordDate(row, c) ==
    IF c \in DatetimeCols
    THEN (IF row.cells[c] = NaN THEN NaT ELSE row.cells[c].v)
    ELSE first_date(row.cells[c])

\* a <= b on calendar dates, by year, month, day
DateLeq(a, b) ==
    \/ a[1] < b[1]
    \/ a[1] = b[1] /\ a[2] < b[2]
    \/ a[1] = b[1] /\ a[2] = b[2] /\ a[3] <= b[3]

\* C16: a RANGE condition (lower, upper), either bound possibly absent,
\* selects exactly the records whose date d satisfies lower <= d when lower
\* is present and d <= upper when upper is present, both inclusive.
C16_RangeInclusive ==
    AppliedOne("RANGE") =>
        LET c == conditions[1].column
            lo == conditions[1].value[1]
            hi == conditions[1].value[2]
        IN  IndexOf(result[1]) =
                {df_original[p].idx : p \in {q \in 1..Len(df_original) :
                    LET d == RecordDate(df_original[q], c)
                    IN  /\ lo # NoBound => (d # NaT /\ DateLeq(lo, d))
                        /\ hi # NoBound => (d # NaT /\ DateLeq(d, hi))}}

\* C16 witness: apply_filters has run a RANGE condition on the note column;
\* it kept a record dated on the lower bound and a record dated on the
\* upper bound and dropped a third record
C16_Witness ==
    /\ AppliedOne("RANGE")
    /\ conditions[1] =
          FilterCondition("note", "RANGE", <<<<2025, 1, 10>>, <<2025, 2, 1>>>>)
    /\ Len(df_original) = 3
    /\ Len(result[1]) = 2
    /\ RecordDate(result[1][1], "note") = <<2025, 1, 10>>
    /\ RecordDate(result[1][2], "note") = <<2025, 2, 1>>

----------------------------------------------------------------------------
(* Claims about records without a date (SpecFilter)                        *)

\* the text dd.mm.yyyy names a day of the calendar: a month 1..12 and a day
\* that month has
IsCalendarText(t) ==
    LET d == 10 * DigitVal(t[1]) + DigitVal(t[2])
        m == 10 * DigitVal(t[4]) + DigitVal(t[5])
        y == 1000 * DigitVal(t[7]) + 100 * DigitVal(t[8])
               + 10 * DigitVal(t[9]) + DigitVal(t[10])
    IN  m \in 1..12 /\ d \in 1..DaysInMonth(y, m)

\* the field has no dd.mm.yyyy text at all
NoDateText(row, c) ==
    IF c \in DatetimeCols THEN row.cells[c] = NaN
    ELSE str_extract(astype_str(row.cells[c])) = NaN

\* the field's first dd.mm.yyyy text is not a day of the calendar
MalformedDate(row, c) ==
    /\ c \notin DatetimeCols
    /\ ~NoDateText(row, c)
    /\ ~IsCalendarText(str_extract(astype_str(row.cells[c])))

\* the ids of the records without a usable date in field c
Dateless(c) ==
    {df_original[p].idx : p \in {q \in 1..Len(df_original) :
        NoDateText(df_original[q], c) \/ MalformedDate(df_original[q], c)}}

\* C17: a record whose field has no extractable date, or a malformed one,
\* is selected by no RANGE condition of the list that has a bound and by
\* every RANGE condition of the list without bounds; apply_filters on the
\* list still returns a frame, and it holds exactly the records every
\* condition of the list selects.
C17_DatelessRange ==
    /\ \A i \in 1..Len(conditions) :
          (conditions[i].operator = "RANGE" /\ conditions[i].column \in columns) =>
              LET c == conditions[i].column
                  sel == SelectedBy(c, "RANGE", conditions[i].value)
              IN  IF conditions[i].value = <<NoBound, NoBound>>
                  THEN Dateless(c) \subseteq sel
                  ELSE sel \cap Dateless(c) = {}
    /\ Applied =>
          \A p \in 1..Len(df_original) :
              df_original[p].idx \in IndexOf(result[1])
                  <=> \A i \in 1..Len(conditions) :
                          Satisfies(df_original[p], conditions[i])

\* C17 witness: apply_filters has run an unbounded RANGE on the note column,
\* then a second condition that dropped a record; a record with a malformed
\* note date is in the registry and a record without usable date is in the
\* result
C17_Witness ==
    /\ Applied
    /\ Len(conditions) = 2
    /\ conditions[1] = FilterCondition("note", "RANGE", <<NoBound, NoBound>>)
    /\ conditions[2].operator # "RANGE"
    /\ Len(result[1]) < Len(df_original)
    /\ \E p \in 1..Len(df_original) : MalformedDate(df_original[p], "note")
    /\ IndexOf(result[1]) \cap Dateless("note") # {}

----------------------------------------------------------------------------
(* Claims about the condition panel (SpecView)                             *)

\* equality as by value for a shared type, else by the trimmed texts
EqualByValueOrText(cell, val) ==
    IF cell.t = val.t THEN cell.v = val.v
    ELSE Strip(astype_str(cell)) = Strip(astype_str(val))

\* C18: for every EQUALS or NOT_EQUALS condition of the condition list and
\* every record whose field is not missing, the condition selects the
\* record exactly when field and operand are equal by value (shared type)
\* or by their trimmed textual renderings (different types), resp. unequal.
C18_EqualsByValueOrText ==
    \A i \in 1..Len(conditions) :
        conditions[i].operator \in {"EQUALS", "NOT_EQUALS"} =>
            \A p \in 1..Len(df_original) :
                LET cell == df_original[p].cells[conditions[i].column]
                IN  cell # NaN =>
                        (df_original[p].idx \in
                             IndexOf(_apply_single_condition(df_original, conditions[i]))
                         <=> ((conditions[i].operator = "EQUALS")
                                 <=> EqualByValueOrText(cell, conditions[i].value)))

\* a date text the user typed that is not a dd.mm.yyyy day of the calendar
BadDateText(t) ==
    t # <<>> /\ ~(Len(t) = 10 /\ DatePatternAt(t, 1) /\ IsCalendarText(t))

\* the handler takes the date-range branch for the widgets ui
DateBranch(ui) ==
    /\ _is_date_like_column(df_original, ui.column)
    /\ (Strip(ui.date_from) # <<>> \/ Strip(ui.date_to) # <<>>)

\* the user's date text does not parse
BadDateAttempt(ui) ==
    DateBranch(ui) /\ (BadDateText(Strip(ui.date_from)) \/ BadDateText(Strip(ui.date_to)))

\* the user's operand text does not convert to the type of the column
BadOperandAttempt(ui) ==
    /\ ~DateBranch(ui)
    /\ Strip(ui.value) # <<>>
    /\ ui.column \in NumericCols
    /\ \E k \in 1..Len(Strip(ui.value)) : ~IsDigit(Strip(ui.value)[k])

\* nothing the attempt could have touched has changed
AttemptLeftNoTrace ==
    /\ conditions' = conditions
    /\ df_original' = df_original
    /\ df_current' = df_current

\* C19 as stated: when the date text or the operand text of a new condition
\* does not parse, the condition is not added; condition list and registry
\* are as before the attempt.
C19_UnparsedNotAdded ==
    [][\A ui \in UiStates :
          (BadDateAttempt(ui) \/ BadOperandAttempt(ui)) /\ add_condition_from_ui(ui)
              => AttemptLeftNoTrace]_vars

\* C19 amended: when the date text does not parse, the condition is not
\* added and condition list, registry and view are as before the attempt;
\* when the operand text does not convert to the column's type, the
\* condition is added with the trimmed text as its operand, and the
\* registry is as before.
C19_UnparsedDateNotAdded ==
    [][\A ui \in UiStates :
          /\ BadDateAttempt(ui) /\ add_condition_from_ui(ui) => AttemptLeftNoTrace
          /\ BadOperandAttempt(ui) /\ add_condition_from_ui(ui) =>
                /\ conditions' = Append(conditions,
                       FilterCondition(ui.column, ui.op_text, Str(Strip(ui.value))))
                /\ df_original' = df_original]_vars

\* C19 witness: the list holds a condition on the numeric column whose
\* operand stayed a text, the measure column is date-like, and an attempt
\* with the date text 31.02.2025 leaves the list as it is
C19_Witness ==
    /\ Len(conditions) = 1
    /\ conditions[1].column \in NumericCols
    /\ conditions[1].value = Str(<<"a", "b">>)
    /\ _is_date_like_column(df_original, "measure")
    /\ \A ui \in UiStates :
          (ui.column = "measure" /\ ui.date_from = DateText(31, 2, 2025))
              => /\ BadDateAttempt(ui)
                 /\ conditions_after_add(df_original, conditions, ui) = conditions

----------------------------------------------------------------------------
(* main.py: MatchAnalysisDialog._normalize_pib_flexible                    *)
(*                                                                         *)
(* A character of a name is written by its name where it is not ASCII:    *)
(* CYR_A, cyr_a, ... are the Cyrillic letters, I_DOT is U+0130 (capital I *)
(* with dot above), DOT_ABOVE the combining mark U+0307, KELVIN U+212A,   *)
(* NBSP U+00A0, ZWSP U+200B, RSQUO U+2019 (right single quotation mark),  *)
(* EN_DASH U+2013.                                                         *)

\* compatibility decomposition of one character (the first half of NFKC)
nfkd_char(c) ==
    CASE c = "I_DOT" -> <<"I", "DOT_ABOVE">>
      [] c = "KELVIN" -> <<"K">>
      [] c = "NBSP" -> <<" ">>
      [] OTHER -> <<c>>

RECURSIVE nfkd(_)
nfkd(s) == IF s = <<>> THEN <<>> ELSE nfkd_char(Head(s)) \o nfkd(Tail(s))

\* canonical composition (the second half of NFKC): I followed by the
\* combining dot composes to I_DOT; i followed by it has no composed form
RECURSIVE nfc_compose(_)
nfc_compose(s) ==
    IF s = <<>> THEN <<>>
    ELSE IF Len(s) >= 2 /\ s[1] = "I" /\ s[2] = "DOT_ABOVE"
         THEN <<"I_DOT">> \o nfc_compose(SubSeq(s, 3, Len(s)))
         ELSE <<Head(s)>> \o nfc_compose(Tail(s))

\* unicodedata.normalize("NFKC", s)
nfkc(s) == nfc_compose(nfkd(s))

\* s.replace(sp, " ") for the invisible and non-standard spaces
replace_spaces(s) ==
    [k \in 1..Len(s) |-> IF s[k] \in {"NBSP", "ZWSP"} THEN " " ELSE s[k]]

\* s.translate(...): the Latin look-alikes to Cyrillic
translate_char(c) ==
    CASE c = "A" -> "CYR_A"
      [] c = "a" -> "cyr_a"
      [] c = "B" -> "CYR_VE"
      [] c = "I" -> "CYR_I"
      [] c = "i" -> "cyr_i"
      [] c = "K" -> "CYR_KA"
      [] c = "E" -> "CYR_IE"
      [] c = "e" -> "cyr_ie"
      [] c = "O" -> "CYR_O"
      [] c = "o" -> "cyr_o"
      [] c = "P" -> "CYR_ER"
      [] c = "p" -> "cyr_er"
      [] c = "T" -> "CYR_TE"
      [] OTHER -> c

translate(s) == [k \in 1..Len(s) |-> translate_char(s[k])]

\* re.sub(r"[...]", "", s): apostrophes and dashes removed
remove_apostrophes_dashes(s) ==
    SelectSeq(s, LAMBDA c : c \notin {"'", "RSQUO", "-", "EN_DASH"})

\* \w: letters, digits and the underscore; a combining mark is not one
IsWordChar(c) ==
    \/ c \in {"A", "a", "B", "b", "I", "i", "K", "k", "I_DOT", "KELVIN",
              "CYR_A", "cyr_a", "CYR_VE", "cyr_ve", "CYR_I", "cyr_i",
              "CYR_KA", "cyr_ka",
              "E", "e", "N", "n", "O", "o", "P", "p", "R", "r", "T", "t",
              "CYR_IE", "cyr_ie", "CYR_O", "cyr_o", "CYR_ER", "cyr_er",
              "CYR_TE", "cyr_te"}
    \/ IsDigit(c)

\* \s
IsWhitespace(c) == c \in {" ", "NBSP"}

\* re.sub(r"[^\w\s]", " ", s): punctuation becomes a space
punctuation_to_space(s) ==
    [k \in 1..Len(s) |-> IF IsWordChar(s[k]) \/ IsWhitespace(s[k]) THEN s[k] ELSE " "]

\* re.sub(r"\s+", " ", s) on a text without leading whitespace
RECURSIVE collapse(_)
collapse(s) ==
    IF s = <<>> THEN <<>>
    ELSE IF IsWhitespace(Head(s))
         THEN (IF Len(s) >= 2 /\ IsWhitespace(s[2]) THEN collapse(Tail(s))
               ELSE <<" ">> \o collapse(Tail(s)))
         ELSE <<Head(s)>> \o collapse(Tail(s))

RECURSIVE lstrip_ws(_)
lstrip_ws(s) ==
    IF s # <<>> /\ IsWhitespace(Head(s)) THEN lstrip_ws(Tail(s)) ELSE s

RECURSIVE rstrip_ws(_)
rstrip_ws(s) ==
    IF s # <<>> /\ IsWhitespace(s[Len(s)]) THEN rstrip_ws(SubSeq(s, 1, Len(s) - 1))
    ELSE s

\* re.sub(r"\s+", " ", s).strip()
collapse_and_strip(s) == rstrip_ws(collapse(lstrip_ws(s)))

\* str.casefold() of one character: I_DOT folds to i and the combining dot
casefold_char(c) ==
    CASE c = "A" -> <<"a">>
      [] c = "B" -> <<"b">>
      [] c = "I" -> <<"i">>
      [] c = "K" -> <<"k">>
      [] c = "KELVIN" -> <<"k">>
      [] c = "I_DOT" -> <<"i", "DOT_ABOVE">>
      [] c = "CYR_A" -> <<"cyr_a">>
      [] c = "CYR_VE" -> <<"cyr_ve">>
      [] c = "CYR_I" -> <<"cyr_i">>
      [] c = "CYR_KA" -> <<"cyr_ka">>
      [] c = "E" -> <<"e">>
      [] c = "N" -> <<"n">>
      [] c = "O" -> <<"o">>
      [] c = "P" -> <<"p">>
      [] c = "R" -> <<"r">>
      [] c = "T" -> <<"t">>
      [] c = "CYR_IE" -> <<"cyr_ie">>
      [] c = "CYR_O" -> <<"cyr_o">>
      [] c = "CYR_ER" -> <<"cyr_er">>
      [] c = "CYR_TE" -> <<"cyr_te">>
      [] OTHER -> <<c>>

RECURSIVE casefold(_)
casefold(s) == IF s = <<>> THEN <<>> ELSE casefold_char(Head(s)) \o casefold(Tail(s))

_normalize_pib_flexible(value) ==
    casefold(collapse_and_strip(punctuation_to_space(remove_apostrophes_dashes(
        translate(replace_spaces(nfkc(value)))))))

----------------------------------------------------------------------------
(* SpecNorm: the name normaliser applied to a text and to its own output   *)

MaxNameLen == 2

NameChars ==
    {"A", "a", "B", "b", "i", "K", "k", "I_DOT", "KELVIN", " ", "ZWSP",
     "-", "EN_DASH", "'", "RSQUO", "."}

NameTexts == UNION {[1..n -> NameChars] : n \in 0..MaxNameLen}

InitNorm ==
    /\ \E x \in NameTexts : result = <<x>>
    /\ columns = {}
    /\ df_original = <<>>
    /\ df_current = <<>>
    /\ conditions = <<>>
    /\ global_search_text = <<>>
    /\ view_mode = "main"
    /\ expired_indices = {}
    /\ expiring_by5_indices = {}
    /\ ors_warning_indices = {}
    /\ ors_overdue_indices = {}
    /\ ors_warning_rows = {}
    /\ ors_overdue_rows = {}
    /\ duplicate_indices = {}
    /\ clock = FirstDay
    /\ today = FirstDay

\* one more call: the normaliser applied to the last value
Normalize ==
    /\ Len(result) < 3
    /\ result' = Append(result, _normalize_pib_flexible(result[Len(result)]))
    /\ UNCHANGED <<columns, df_original, df_current, conditions, global_search_text,
                   view_mode, expired_indices, expiring_by5_indices,
                   ors_warning_indices, ors_overdue_indices, ors_warning_rows,
                   ors_overdue_rows, duplicate_indices, clock, today>>

NextNorm == Normalize

SpecNorm == InitNorm /\ [][NextNorm]_vars

\* C20: the name normaliser is idempotent: normalising a normalised text
\* returns it unchanged.
C20_NormalizeIdempotent ==
    Len(result) = 3 => result[3] = result[2]

\* two characters that are variants of one another: two apostrophes, two
\* hyphens, or the two cases of one letter
VariantChars(a, b) ==
    \/ a = b
    \/ {a, b} \subseteq {"'", "RSQUO"}
    \/ {a, b} \subseteq {"-", "EN_DASH"}
    \/ {a, b} \in {{"A", "a"}, {"B", "b"}, {"K", "k"}}

\* two texts that differ only in apostrophe variants, hyphen variants and
\* letter case
SameUpToVariants(x, y) ==
    Len(x) = Len(y) /\ \A k \in 1..Len(x) : VariantChars(x[k], y[k])

\* C21: texts that differ only in apostrophe variants, hyphen variants and
\* letter case normalise to the same canonical form.
C21_VariantsNormalizeEqual ==
    Len(result) >= 2 =>
        \A y \in NameTexts :
            SameUpToVariants(result[1], y) => _normalize_pib_flexible(y) = result[2]

\* the Latin letters of the model that the confusable table lists, in both
\* cases, and the Cyrillic letter each one looks like
LatinConfusables == {"A", "a", "B", "b", "K", "k", "i"}

Lookalike(c) ==
    CASE c \in {"A", "a"} -> "CYR_A"
      [] c \in {"B", "b"} -> "CYR_VE"
      [] c \in {"K", "k"} -> "CYR_KA"
      [] c = "i" -> "CYR_I"

\* C22: a name written with Latin letters of the confusable table, in either
\* case, normalises to what the same name written with the Cyrillic
\* look-alikes normalises to.
C22_LatinLookalikesFold ==
    (/\ Len(result) >= 2
     /\ result[1] # <<>>
     /\ \A k \in 1..Len(result[1]) : result[1][k] \in LatinConfusables)
        => result[2] =
              _normalize_pib_flexible([k \in 1..Len(result[1]) |-> Lookalike(result[1][k])])


----------------------------------------------------------------------------
(* main.py: MatchAnalysisDialog, the comparison of the registry (the left *)
(* table) with the text of an external document (right_text).  Under      *)
(* SpecMatch the variable result holds the dialog's fields and            *)
(* df_original is the table the main window hands to the dialog.          *)

\* an absent DataFrame or Series (None), and a present one
NoFrame == [none |-> TRUE, rows |-> <<>>]

Frame(rows) == [none |-> FALSE, rows |-> rows]

\* str.find(sub, start): the 0-based offset of the first occurrence of sub
\* at or after start, -1 when there is none
RECURSIVE str_find(_, _, _)
str_find(s, sub, start) ==
    IF start + Len(sub) > Len(s) THEN -1
    ELSE IF SubSeq(s, start + 1, start + Len(sub)) = sub THEN start
    ELSE str_find(s, sub, start + 1)

\* sub in s
str_in(sub, s) == str_find(s, sub, 0) # -1

\* the offsets found by repeated find, the search resuming step characters
\* after each hit
RECURSIVE find_all(_, _, _, _)
find_all(s, sub, start, step) ==
    LET pos == str_find(s, sub, start)
    IN  IF pos = -1 THEN <<>>
        ELSE <<pos>> \o find_all(s, sub, pos + step, step)

\* the count with the search resuming one character after each hit, so
\* that overlapping occurrences are counted
str_count_overlapping(s, sub) == Len(find_all(s, sub, 0, 1))

\* str.count(sub): the number of non-overlapping occurrences
str_count(s, sub) == Len(find_all(s, sub, 0, Len(sub)))

\* the order of the columns in the left table
ColumnOrder == <<"pib", "note", "ors">>

\* _get_pib_series: the column whose caption contains the name caption,
\* rendered as text; None when the schema has none (the schemas of the
\* model have no separate surname / given name / patronymic columns)
_get_pib_series(left) ==
    IF left.none \/ "pib" \notin columns THEN NoFrame
    ELSE Frame([p \in 1..Len(left.rows) |->
                   [idx |-> left.rows[p].idx,
                    val |-> astype_str(left.rows[p].cells["pib"])]])

\* the number of digits that follow one another from position p on
RECURSIVE digit_run(_, _)
digit_run(s, p) ==
    IF p > Len(s) \/ ~IsDigit(s[p]) THEN 0 ELSE 1 + digit_run(s, p + 1)

\* str.extract(r"(\d{5,10})") with fillna(""): the leftmost run of at
\* least 5 digits, cut after 10
RECURSIVE extract_number(_, _)
extract_number(s, p) ==
    IF p > Len(s) THEN <<>>
    ELSE LET n == digit_run(s, p)
         IN  IF n >= 5 THEN SubSeq(s, p, p + (IF n > 10 THEN 10 ELSE n) - 1)
             ELSE extract_number(s, p + 1)

\* df.astype(str).agg(" ".join, axis=1) for one row: every column of the
\* table, the two flag columns included
RECURSIVE join_cells(_, _)
join_cells(row, k) ==
    IF k > Len(ColumnOrder)
    THEN astype_str(Bool(row.is_archived)) \o <<" ">> \o astype_str(Bool(row.is_deleted))
    ELSE IF ColumnOrder[k] \in columns
         THEN astype_str(row.cells[ColumnOrder[k]]) \o <<" ">> \o join_cells(row, k + 1)
         ELSE join_cells(row, k + 1)

\* _get_ors_series: the number extracted from the case-number column when
\* the schema has one, otherwise from the whole row; None when no row
\* yields a number
_get_ors_series(left) ==
    IF left.none THEN NoFrame
    ELSE LET base(row) == IF "ors" \in columns THEN astype_str(row.cells["ors"])
                          ELSE join_cells(row, 1)
             extracted == [p \in 1..Len(left.rows) |->
                              [idx |-> left.rows[p].idx,
                               val |-> extract_number(base(left.rows[p]), 1)]]
         IN  IF \A p \in 1..Len(extracted) : extracted[p].val = <<>>
             THEN NoFrame
             ELSE Frame(extracted)

\* the loop of _find_pib_matches over the name series: one entry
\* (idx, name, count) for every name found in the normalised text
RECURSIVE pib_loop(_, _, _)
pib_loop(items, norm_text, p) ==
    IF p > Len(items) THEN <<>>
    ELSE LET name == Strip(before_comma(items[p].val))
             norm_name == _normalize_pib_flexible(name)
             rest == pib_loop(items, norm_text, p + 1)
         IN  IF name = <<>> \/ norm_name = <<>> \/ ~str_in(norm_name, norm_text)
             THEN rest
             ELSE <<[idx |-> items[p].idx, name |-> name,
                     count |-> str_count(norm_text, norm_name)]>> \o rest

\* the loop of _find_ors_matches over the number series
RECURSIVE ors_loop(_, _, _)
ors_loop(items, text_lower, p) ==
    IF p > Len(items) THEN <<>>
    ELSE LET num == Strip(items[p].val)
             num_lower == lower(num)
             rest == ors_loop(items, text_lower, p + 1)
         IN  IF num = <<>> \/ ~str_in(num_lower, text_lower)
             THEN rest
             ELSE <<[idx |-> items[p].idx, name |-> num,
                     count |-> str_count(text_lower, num_lower)]>> \o rest

\* the index labels of a list of matches
matched_idx(matches) == {matches[p].idx : p \in 1..Len(matches)}

\* left_df[~left_df.index.isin(matched)]
rows_not_in(rows, matched) == SelectSeq(rows, LAMBDA r : r.idx \notin matched)

\* the tab of one mode after the analysis: the matches, the unmatched rows
\* and the two lists shown; when the series is None the tab stays cleared
tab_of(series, left, matches) ==
    IF series.none \/ left.none
    THEN [matches |-> <<>>, unique_rows |-> NoFrame, list_unique |-> <<>>]
    ELSE [matches |-> matches,
          unique_rows |-> Frame(rows_not_in(left.rows, matched_idx(matches))),
          list_unique |-> SelectSeq(series.rows,
                              LAMBDA it : it.idx \notin matched_idx(matches))]

_find_pib_matches(dlg) ==
    LET pib_series == _get_pib_series(dlg.left_df)
        norm_text == _normalize_pib_flexible(dlg.right_text)
    IN  tab_of(pib_series, dlg.left_df, pib_loop(pib_series.rows, norm_text, 1))

_find_ors_matches(dlg) ==
    LET ors_series == _get_ors_series(dlg.left_df)
    IN  tab_of(ors_series, dlg.left_df,
               ors_loop(ors_series.rows, lower(dlg.right_text), 1))

\* find_matches: nothing without a table and a non-blank text; otherwise
\* the cursors are cleared and both modes analysed
find_matches(dlg) ==
    IF dlg.left_df.none \/ Strip(dlg.right_text) = <<>> THEN dlg
    ELSE [dlg EXCEPT !.unique_pos_index = <<>>,
                     !.pib = _find_pib_matches(dlg),
                     !.ors = _find_ors_matches(dlg)]

\* re.search(r"\d+", s).group(0): the first run of digits, <<>> when none
RECURSIVE first_digits(_, _)
first_digits(s, p) ==
    IF p > Len(s) THEN <<>>
    ELSE IF IsDigit(s[p]) THEN SubSeq(s, p, p + digit_run(s, p) - 1)
    ELSE first_digits(s, p + 1)

\* the text searched for when an item "idx: text" of an unmatched list is
\* selected: the name before the first comma, or the first number of the
\* item (the whole item when it has no digit)
selected_name(mode, item) ==
    LET full_text == Strip(item.val)
    IN  IF mode = "pib" THEN Strip(before_comma(full_text))
        ELSE IF first_digits(full_text, 1) # <<>> THEN first_digits(full_text, 1)
        ELSE full_text

\* the offsets of the occurrences of the selected name in the raw text
positions(dlg, mode, item) ==
    LET name == selected_name(mode, item)
    IN  IF name = <<>> THEN <<>>
        ELSE find_all(lower(dlg.right_text), lower(name), 0, Len(name))

\* the lookup with 0 in place of -1 for a key without a cursor
pos_index_get_default_zero(index, key) == IF key \in DOMAIN index THEN index[key] ELSE 0

\* _unique_pos_index.get(key, -1)
pos_index_get(index, key) == IF key \in DOMAIN index THEN index[key] ELSE -1

\* the next cursor without the return to the first occurrence
next_cur_idx_no_wrap(prev, n) == prev + 1

\* the next cursor: one further, back to 0 past the last occurrence
next_cur_idx(prev, n) == IF prev + 1 >= n THEN 0 ELSE prev + 1

\* on_unique_selected: nothing when the name is empty or does not occur;
\* otherwise the cursor of (mode, name) advances and the text cursor goes
\* to that occurrence (-1: the index is outside the list, an IndexError)
on_unique_selected(dlg, mode, item) ==
    LET name == selected_name(mode, item)
        found == positions(dlg, mode, item)
        key == <<mode, lower(name)>>
        cur_idx == next_cur_idx(pos_index_get(dlg.unique_pos_index, key), Len(found))
    IN  IF found = <<>> THEN dlg
        ELSE [dlg EXCEPT
                 !.unique_pos_index =
                     [k \in DOMAIN dlg.unique_pos_index \cup {key} |->
                         IF k = key THEN cur_idx ELSE dlg.unique_pos_index[k]],
                 !.text_cursor = IF cur_idx < Len(found) THEN found[cur_idx + 1] ELSE -1]

\* set_left_df: the table is copied and the analysis button enabled when
\* there is a non-blank text
set_left_df(dlg, df) ==
    [dlg EXCEPT !.left_df = Frame(df),
                !.btn_find_matches = (Strip(dlg.right_text) # <<>>)]

\* load_right_document: the text of the document replaces right_text; the
\* lists and the cursors are left as they are
load_right_document(dlg, text) ==
    [dlg EXCEPT !.right_text = text,
                !.text_cursor = 0,
                !.btn_find_matches = (~dlg.left_df.none /\ Strip(text) # <<>>)]

\* MatchAnalysisDialog.__init__
EmptyTab == [matches |-> <<>>, unique_rows |-> NoFrame, list_unique |-> <<>>]

NewDialog ==
    [left_df |-> NoFrame, right_text |-> <<>>, btn_find_matches |-> FALSE,
     pib |-> EmptyTab, ors |-> EmptyTab, unique_pos_index |-> <<>>,
     text_cursor |-> 0,
     \* history, not fields of the dialog: the last selection that found an
     \* occurrence in the text now loaded, and since the last analysis the
     \* number of such selections per item and per (mode, name), and
     \* whether the text was replaced
     last |-> <<>>, picks |-> <<>>, visits |-> <<>>, reloaded |-> FALSE]



----------------------------------------------------------------------------
(* SpecMatch: the dialog opened on a registry; the user takes the table,  *)
(* loads documents, runs the analysis and selects unmatched items          *)

MaxSelections == 4

PetrenkoName == <<"P", "e", "t", "r", "e", "n", "k", "o", ",", " ", "0", "1", ".", "0", "1", ".", "1", "9", "9", "0">>

\* the texts of the external documents
DocumentTexts ==
    {<<>>,
     <<" ">>,
     <<"p", "e", "t", "r", "e", "n", "k", "o">>,
     <<"P", "E", "T", "R", "E", "N", "K", "O", " ", "P", "E", "T", "R", "E", "N", "K", "O", " ", "P", "E", "T", "R", "E", "N", "K", "O", " ", "1", "2", "3", "4", "5">>,
     <<"P", "E", "T", "R", "E", "N", "K", "O", " ", "1", "2", "3", "4">>,
     <<"a", "a", "a", " ", "1", "2", "3", "4", "5", "6", "7", "8", "9", "0">>,
     <<"a", "-", "a", "-", "a">>}

MatchRow(i, cols, pib, note, ors) ==
    Row(i, [c \in cols |-> CASE c = "pib" -> Str(pib)
                             [] c = "note" -> Str(note)
                             [] c = "ors" -> Str(ors)],
        FALSE, FALSE)

\* the registries handed to the dialog, each with its schema
MatchRegistries ==
    {[cols |-> {"pib", "ors"},
      df |-> <<MatchRow(0, {"pib", "ors"}, PetrenkoName, <<>>, <<"1", "2", "3", "4", "5">>),
               MatchRow(1, {"pib", "ors"}, PetrenkoName, <<>>, <<"1", "2", "3", "4">>)>>],
     [cols |-> {"pib", "ors"},
      df |-> <<MatchRow(0, {"pib", "ors"}, <<"a", "a">>, <<>>, <<"1", "2", "3", "4", "5">>),
               MatchRow(1, {"pib", "ors"}, <<"-">>, <<>>, <<>>)>>],
     [cols |-> {"pib", "ors"},
      df |-> <<MatchRow(0, {"pib", "ors"}, <<>>, <<>>, <<"1", "2", "3", "4">>)>>],
     [cols |-> {"pib", "note"},
      df |-> <<MatchRow(0, {"pib", "note"}, PetrenkoName, <<"n", " ", "1", "2", "3", "4", "5", "6", "7", "8", "9", "0", "1", "2">>, <<>>),
               MatchRow(1, {"pib", "note"}, <<"a", "a">>, <<"a", "b">>, <<>>)>>],
     [cols |-> {"pib", "note"},
      df |-> <<MatchRow(0, {"pib", "note"}, <<"a", "a">>, <<"a", "b">>, <<>>)>>],
     [cols |-> {"note"},
      df |-> <<MatchRow(0, {"note"}, <<>>, <<"1", "2", "3", "4", "5">>, <<>>)>>]}

InitMatch ==
    /\ \E g \in MatchRegistries :
          /\ columns = g.cols
          /\ df_original = g.df
          /\ df_current = g.df
    /\ result = NewDialog
    /\ conditions = <<>>
    /\ global_search_text = <<>>
    /\ view_mode = "main"
    /\ expired_indices = {}
    /\ expiring_by5_indices = {}
    /\ ors_warning_indices = {}
    /\ ors_overdue_indices = {}
    /\ ors_warning_rows = {}
    /\ ors_overdue_rows = {}
    /\ duplicate_indices = {}
    /\ clock = FirstDay
    /\ today = FirstDay

MatchUnchanged ==
    UNCHANGED <<columns, df_original, df_current, conditions, global_search_text,
                view_mode, expired_indices, expiring_by5_indices,
                ors_warning_indices, ors_overdue_indices, ors_warning_rows,
                ors_overdue_rows, duplicate_indices, clock, today>>

\* use_current_table: the dialog takes the registry of the main window
UseCurrentTable ==
    /\ result.left_df.none
    /\ result' = set_left_df(result, df_original)
    /\ MatchUnchanged

\* the user loads a document
LoadRightDocument ==
    /\ \E text \in DocumentTexts :
          /\ text # result.right_text
          /\ result' = [load_right_document(result, text) EXCEPT
                           !.reloaded = TRUE, !.last = <<>>]
    /\ MatchUnchanged

\* the user presses the analysis button
FindMatches ==
    /\ result.btn_find_matches
    /\ result' = [find_matches(result) EXCEPT
                     !.last = <<>>, !.picks = <<>>, !.visits = <<>>,
                     !.reloaded = FALSE]
    /\ MatchUnchanged

\* one more in a counter of selections
counted(f, k) ==
    [x \in DOMAIN f \cup {k} |->
        IF x # k THEN f[x] ELSE IF k \in DOMAIN f THEN f[k] + 1 ELSE 1]

\* the number of selections counted in f
RECURSIVE total(_)
total(f) ==
    IF DOMAIN f = {} THEN 0
    ELSE LET k == CHOOSE x \in DOMAIN f : TRUE
         IN  f[k] + total([x \in DOMAIN f \ {k} |-> f[x]])

\* the list of unmatched items of a mode
list_unique(dlg, mode) == IF mode = "pib" THEN dlg.pib.list_unique ELSE dlg.ors.list_unique

\* the user selects an item of the unmatched list of a mode
SelectUnique ==
    /\ total(result.picks) < MaxSelections
    /\ \E mode \in {"pib", "ors"} :
          \E p \in 1..Len(list_unique(result, mode)) :
             LET item == list_unique(result, mode)[p]
                 after == on_unique_selected(result, mode, item)
             IN  /\ after # result
                 /\ result' = [after EXCEPT
                       !.last = <<mode, item.idx>>,
                       !.picks = counted(result.picks, <<mode, item.idx>>),
                       !.visits = counted(result.visits,
                                      <<mode, lower(selected_name(mode, item))>>)]
    /\ MatchUnchanged

NextMatch ==
    \/ UseCurrentTable
    \/ LoadRightDocument
    \/ FindMatches
    \/ SelectUnique

SpecMatch == InitMatch /\ [][NextMatch]_vars


----------------------------------------------------------------------------
(* The analysis of the dialog                                              *)

\* the lists shown are those of an analysis of the text now loaded
Fresh == ~result.reloaded /\ result.right_text # <<>>

\* sub occurs in s
IsSubstring(sub, s) ==
    \E p \in 1..(Len(s) - Len(sub) + 1) : SubSeq(s, p, p + Len(sub) - 1) = sub

\* the largest number of occurrences of sub in s no two of which overlap
NonOverlapping(sub, s) ==
    LET starts == {p \in 1..(Len(s) - Len(sub) + 1) :
                       SubSeq(s, p, p + Len(sub) - 1) = sub}
        disjoint(S) == \A a \in S : \A b \in S : a < b => b - a >= Len(sub)
        sizes == {Cardinality(S) : S \in {X \in SUBSET starts : disjoint(X)}}
    IN  CHOOSE m \in sizes : \A k \in sizes : k <= m

\* the label of a record in name mode: the name cell before its first comma
NameLabel(row) == Strip(before_comma(astype_str(row.cells["pib"])))

\* the entries of a list of matches that belong to record i
EntriesOf(matches, i) == {p \in 1..Len(matches) : matches[p].idx = i}

\* C23: in name mode a record is among the matches iff its normalised label
\* is non-empty and occurs in the normalised external text, and the count
\* shown is the number of non-overlapping occurrences of the normalised
\* label in the normalised text; a record labelled "Petrenko, 01.01.1990"
\* against the text "petrenko" is matched once with count 1.
C23_NameMatches ==
    (Fresh /\ "pib" \in columns) =>
        LET norm_text == _normalize_pib_flexible(result.right_text)
            matches == result.pib.matches
        IN  \A p \in 1..Len(df_original) :
               LET row == df_original[p]
                   label == _normalize_pib_flexible(NameLabel(row))
                   found == label # <<>> /\ IsSubstring(label, norm_text)
               IN  /\ found <=> row.idx \in matched_idx(matches)
                   /\ Cardinality(EntriesOf(matches, row.idx)) <= 1
                   /\ \A e \in EntriesOf(matches, row.idx) :
                         matches[e].count = NonOverlapping(label, norm_text)
                   /\ (astype_str(row.cells["pib"]) = PetrenkoName
                       /\ result.right_text = <<"p", "e", "t", "r", "e", "n", "k", "o">>)
                         => \E e \in EntriesOf(matches, row.idx) : matches[e].count = 1

C23_Witness ==
    /\ Fresh
    /\ columns = {"pib", "note"}
    /\ result.right_text = <<"p", "e", "t", "r", "e", "n", "k", "o">>
    /\ Len(df_original) = 2
    /\ astype_str(df_original[1].cells["pib"]) = PetrenkoName
    /\ Len(result.pib.matches) = 1
    /\ result.pib.matches[1].idx = df_original[1].idx
    /\ result.pib.matches[1].count = 1
    /\ result.pib.unique_rows = Frame(<<df_original[2]>>)

\* the tab of a mode
TabOf(mode) == IF mode = "pib" THEN result.pib ELSE result.ors

\* C24: after an analysis, in each mode, the unmatched rows are exactly the
\* rows of the left table whose id is not among that mode's matches, in
\* the order of the table, also when no record yields a name or a number.
C24_UnmatchedIsComplement ==
    Fresh =>
        \A mode \in {"pib", "ors"} :
           /\ ~TabOf(mode).unique_rows.none
           /\ TabOf(mode).unique_rows.rows
                 = SelectSeq(df_original,
                       LAMBDA r : r.idx \notin matched_idx(TabOf(mode).matches))

\* the case number of a record as the documentation of _get_ors_series
\* gives it: the case-number cell itself when the schema has the column,
\* otherwise the first run of 5 to 10 digits of the row's text
CaseToken(row) ==
    IF "ors" \in columns THEN Strip(astype_str(row.cells["ors"]))
    ELSE extract_number(join_cells(row, 1), 1)

\* C25: in case mode a record is among the matches iff its token (the
\* case-number cell when the schema has one, otherwise the first run of 5
\* to 10 digits of the row) is non-empty and occurs, letter case ignored,
\* in the raw external text; the count is that of non-overlapping
\* occurrences.
C25_CaseMatches ==
    Fresh =>
        LET text_lower == lower(result.right_text)
            matches == result.ors.matches
        IN  \A p \in 1..Len(df_original) :
               LET row == df_original[p]
                   token == lower(CaseToken(row))
                   found == token # <<>> /\ IsSubstring(token, text_lower)
               IN  /\ found <=> row.idx \in matched_idx(matches)
                   /\ \A e \in EntriesOf(matches, row.idx) :
                         matches[e].count = NonOverlapping(token, text_lower)

\* the item of the last selection, its key and the offsets of its name in
\* the text
SelectedItem(dlg) ==
    LET items == list_unique(dlg, dlg.last[1])
    IN  items[CHOOSE p \in 1..Len(items) : items[p].idx = dlg.last[2]]

SelectedKey(dlg) ==
    <<dlg.last[1], lower(selected_name(dlg.last[1], SelectedItem(dlg)))>>

SelectedOffsets(dlg) == positions(dlg, dlg.last[1], SelectedItem(dlg))

LastKey == SelectedKey(result)

LastOffsets == SelectedOffsets(result)

\* position k of a cycle through a list of n offsets
CyclePosition(offsets, k) == offsets[((k - 1) % Len(offsets)) + 1]

\* C26 as stated: the k-th selection of an unmatched record since the last
\* analysis goes to the offset at position (k - 1) mod n of its label.
C26_CyclicPerRecord ==
    (result.last # <<>> /\ ~result.reloaded) =>
        result.text_cursor = CyclePosition(LastOffsets, result.picks[result.last])

\* C26: with the text that was analysed, the k-th selection, since the
\* last analysis, of unmatched records that carry the same label in the
\* same mode goes to the offset at position (k - 1) mod n of the ascending
\* offsets of that label.
C26_CyclicPerLabel ==
    (result.last # <<>> /\ ~result.reloaded) =>
        result.text_cursor = CyclePosition(LastOffsets, result.visits[LastKey])

C26_Witness ==
    /\ result.last # <<>>
    /\ ~result.reloaded
    /\ Len(LastOffsets) = 3
    /\ result.visits[LastKey] = 4
    /\ result.text_cursor = LastOffsets[1]


\* the cursor stored for the label of the last selection
SelectedCursor(dlg) == dlg.unique_pos_index[SelectedKey(dlg)]

LastCursor == SelectedCursor(result)

\* C30: whenever a selection uses the cursor of its (mode, label) the
\* cursor is an index into the label's occurrences in the text now loaded
\* and the text cursor goes to that occurrence, also when the text was
\* replaced by one with fewer occurrences; a selection leaves the cursors
\* of the other labels as they were; after find_matches there is no
\* cursor, and the first selection of a label after it goes to the first
\* occurrence.
C30_CursorValid ==
    [][LET after == result'
           key == SelectedKey(after)
           cur == SelectedCursor(after)
           offsets == SelectedOffsets(after)
       IN  /\ after.last # <<>> =>
                 /\ key \in DOMAIN after.unique_pos_index
                 /\ cur \in 0..(Len(offsets) - 1)
                 /\ after.text_cursor = offsets[cur + 1]
                 /\ after.visits[key] = 1 => cur = 0
                 /\ \A k \in DOMAIN result.unique_pos_index :
                       (after.picks # result.picks /\ k # key)
                          => /\ k \in DOMAIN after.unique_pos_index
                             /\ after.unique_pos_index[k] = result.unique_pos_index[k]
           /\ after.picks = <<>> => after.unique_pos_index = <<>>
      ]_vars

C30_Witness ==
    /\ result.last # <<>>
    /\ result.reloaded
    /\ Len(LastOffsets) = 1
    /\ result.visits[LastKey] = 3
    /\ LastCursor = 0
    /\ \E k \in DOMAIN result.unique_pos_index : k # LastKey


----------------------------------------------------------------------------
(* model.py: PandasTableModel.data, the background of a cell of the view  *)

NoColor == <<>>

\* the background with the row number taken for the index label
background_by_row_number(df, r, col_name) ==
    LET orig_index == r - 1
    IN  IF df[r].is_deleted THEN <<230, 230, 230>>
        ELSE IF orig_index \in expired_indices THEN <<255, 190, 190>>
        ELSE IF /\ col7_name # None /\ col8_name # None
                /\ orig_index \in ors_overdue_indices
                /\ col_name \in {col7_name, col8_name} THEN <<255, 200, 200>>
        ELSE IF /\ col5_name # None /\ orig_index \in expiring_by5_indices
                /\ col_name = col5_name THEN <<255, 245, 200>>
        ELSE IF /\ col7_name # None /\ col8_name # None
                /\ orig_index \in ors_warning_indices
                /\ col_name \in {col7_name, col8_name} THEN <<255, 245, 200>>
        ELSE IF orig_index \in duplicate_indices THEN <<200, 220, 255>>
        ELSE IF df[r].is_archived THEN <<210, 240, 210>>
        ELSE NoColor

\* data(index, Qt.BackgroundRole) for row r (1-based here) of the frame df
\* shown and the column col_name: the first of the marks that applies, as
\* the colour (red, green, blue) it is drawn with
background(df, r, col_name) ==
    LET orig_index == df[r].idx
    IN  IF df[r].is_deleted THEN <<230, 230, 230>>
        ELSE IF orig_index \in expired_indices THEN <<255, 190, 190>>
        ELSE IF /\ col7_name # None /\ col8_name # None
                /\ orig_index \in ors_overdue_indices
                /\ col_name \in {col7_name, col8_name} THEN <<255, 200, 200>>
        ELSE IF /\ col5_name # None /\ orig_index \in expiring_by5_indices
                /\ col_name = col5_name THEN <<255, 245, 200>>
        ELSE IF /\ col7_name # None /\ col8_name # None
                /\ orig_index \in ors_warning_indices
                /\ col_name \in {col7_name, col8_name} THEN <<255, 245, 200>>
        ELSE IF orig_index \in duplicate_indices THEN <<200, 220, 255>>
        ELSE IF df[r].is_archived THEN <<210, 240, 210>>
        ELSE NoColor

----------------------------------------------------------------------------
(* SpecTabs: a registry restored from the saved state, under the tabs,    *)
(* the flag handlers and the condition panel                               *)

\* a measure that started on 01.03.2025: it expires on 01.09.2025, 7 days
\* after EarlyDay and before LateDay
TabMeasure == DateText(1, 3, 2025)

\* an order of 20.08.2025: 5 days before EarlyDay, 31 days before LateDay
TabOrder == DateText(20, 8, 2025)

\* the registries of the saved state: one with a deleted record and an
\* archived one, one with neither
TabRegistries ==
    {<<TextRow(0, <<"B">>, TabMeasure, <<>>, <<>>, FALSE, TRUE),
       TextRow(1, <<"A">>, <<"x">>, TabOrder, <<>>, TRUE, FALSE),
       TextRow(2, <<"A">>, TabMeasure, TabOrder, <<>>, FALSE, FALSE)>>,
     <<TextRow(0, <<"B">>, TabMeasure, <<>>, <<>>, FALSE, FALSE),
       TextRow(1, <<"A">>, <<"x">>, TabOrder, <<>>, FALSE, FALSE),
       TextRow(2, <<"A">>, TabMeasure, TabOrder, <<>>, FALSE, FALSE)>>}

\* the condition the user enters: the name equals A
TabUiStates == {UiState("pib", <<>>, <<>>, "EQUALS", <<"A">>)}

InitTabs ==
    \E df \in TabRegistries : \E d \in DeadlineCalendar :
        _setup_dataframe(RegistryColumns, df, d)

AddTabCondition ==
    /\ Len(conditions) < MaxConds
    /\ \E ui \in TabUiStates : add_condition_from_ui(ui)

NextTabs ==
    \/ AddTabCondition
    \/ RemoveCondition
    \/ ClearConditions
    \/ Archive
    \/ Unarchive
    \/ Delete
    \/ Restore
    \/ ChangeTab

SpecTabs == InitTabs /\ [][NextTabs]_vars

----------------------------------------------------------------------------
(* Claims about the view and its marks (SpecTabs)                          *)

\* the rows of the view in which the cell of column c has colour
CellsColoured(c, colour) ==
    {r \in 1..Len(df_current) : background(df_current, r, c) = colour}

\* the rows of the view whose index label is in the set S
ViewMembers(S) == {r \in 1..Len(df_current) : df_current[r].idx \in S}

\* the rows of the view drawn with the mark of each highlight set
ShownExpired == CellsColoured("pib", <<255, 190, 190>>)

ShownExpiring == CellsColoured("measure", <<255, 245, 200>>)

ShownOverdue == CellsColoured("order", <<255, 200, 200>>)

ShownWarning == CellsColoured("order", <<255, 245, 200>>)

ShownDuplicate == CellsColoured("pib", <<200, 220, 255>>)

\* C27 as stated: in the view, whatever the conditions, the records drawn
\* with the mark of a highlight set are exactly the records of the view
\* whose id is in the set.
C27_FlaggedExactlyMembers ==
    /\ ShownExpired = ViewMembers(expired_indices)
    /\ ShownExpiring = ViewMembers(expiring_by5_indices)
    /\ ShownOverdue = ViewMembers(ors_overdue_indices)
    /\ ShownWarning = ViewMembers(ors_warning_indices)
    /\ ShownDuplicate = ViewMembers(duplicate_indices)

\* the rows of the view that are not deleted / not drawn as expired
Live == {r \in 1..Len(df_current) : ~df_current[r].is_deleted}

NotExpired == {r \in 1..Len(df_current) : df_current[r].idx \notin expired_indices}

\* C27: the marks are keyed by record id.  In the view, whatever the
\* conditions, a record is drawn with the mark of a highlight set only if
\* its id is in the set; the non-deleted records of the view whose id is in
\* expired or in expiring_soon are exactly those drawn with that mark, and
\* those in case_overdue, case_warning or duplicate are drawn with that
\* mark unless they are drawn as expired; a deleted record is drawn grey.
\* Three records filtered down to two, one of the two in expiring_soon,
\* show exactly one record marked as expiring.
C27_FlaggedByRecordId ==
    /\ ShownExpired = ViewMembers(expired_indices) \cap Live
    /\ ShownExpiring = ViewMembers(expiring_by5_indices) \cap Live
    /\ ShownOverdue = ViewMembers(ors_overdue_indices) \cap Live \cap NotExpired
    /\ ShownWarning = ViewMembers(ors_warning_indices) \cap Live \cap NotExpired
    /\ ShownDuplicate = ViewMembers(duplicate_indices) \cap Live \cap NotExpired
    /\ \A r \in 1..Len(df_current) :
          df_current[r].is_deleted
             => \A c \in columns : background(df_current, r, c) = <<230, 230, 230>>

C27_Witness ==
    /\ conditions # <<>>
    /\ Len(df_original) = 3
    /\ Len(df_current) = 2
    /\ df_current[1].idx = 1
    /\ df_current[2].idx = 2
    /\ expiring_by5_indices \cap IndexOf(df_current) = {2}
    /\ ShownExpiring = {2}

\* the positions of the registry at which a flag differs between two frames
FlagChanged(df, df2, flag) ==
    {p \in 1..Len(df) :
        IF flag = "is_archived" THEN df[p].is_archived # df2[p].is_archived
        ELSE df[p].is_deleted # df2[p].is_deleted}

\* C28: a flag operation changes only its own flag, and only on records of
\* the view (where the selection is made): no step changes the number of
\* records, an id or a cell; no step changes both flags; hence a record
\* deleted while archived is still archived, and is so after restore.
C28_FlagOpsChangeOwnFlag ==
    [][/\ Len(df_original') = Len(df_original)
       /\ \A p \in 1..Len(df_original) :
             /\ df_original'[p].idx = df_original[p].idx
             /\ df_original'[p].cells = df_original[p].cells
       /\ \/ FlagChanged(df_original, df_original', "is_archived") = {}
          \/ FlagChanged(df_original, df_original', "is_deleted") = {}
       /\ \A p \in FlagChanged(df_original, df_original', "is_archived")
                     \cup FlagChanged(df_original, df_original', "is_deleted") :
             df_original[p].idx \in IndexOf(df_current)
      ]_vars

\* C28 witness: a record that was neither archived nor deleted when the
\* state was restored is archived and deleted, shown in the deleted view,
\* where restore is enabled
C28_Witness ==
    /\ view_mode = "deleted"
    /\ Len(df_original) = 3
    /\ df_original[1].is_archived
    /\ df_original[3].is_archived /\ df_original[3].is_deleted
    /\ df_current = <<df_original[3]>>

\* the rows a view mode shows when there is no condition and no search text
ModeRows(mode) ==
    SelectSeq(df_original, LAMBDA row :
        CASE mode = "main" -> ~row.is_deleted
          [] mode = "archive" -> ~row.is_deleted /\ row.is_archived
          [] mode = "deleted" -> row.is_deleted
          [] mode = "expired" -> ~row.is_deleted /\ row.idx \in expired_indices
          [] mode = "ors_warning" -> ~row.is_deleted /\ row.idx \in ors_warning_indices
          [] mode = "ors_overdue" -> ~row.is_deleted /\ row.idx \in ors_overdue_indices)

\* C29: with no condition and no search text the view is, in the main
\* mode, the records that are not deleted, in the archive mode the archived
\* ones among them, in the deleted mode the deleted records, and in the
\* expired, case_warning and case_overdue modes the non-deleted members of
\* the highlight set; a deleted record is in no view but the deleted one.
C29_ViewModes ==
    (conditions = <<>> /\ global_search_text = <<>>) =>
        /\ df_current = ModeRows(view_mode)
        /\ view_mode # "deleted" =>
              \A r \in 1..Len(df_current) : ~df_current[r].is_deleted

=============================================================================
